---- MODULE Spec2Model ----
(***************************************************************************)
(* nginx-lb-operator: the IP/port allocation store (package ipam), the     *)
(* IP-only allocation store of package utils, and the service reconcilers  *)
(* that drive them.                                                        *)
(***************************************************************************)
EXTENDS Integers, Sequences, FiniteSets, TLC

\* ---------------------------------------------------------------- bounds
MaxPoolLen == 2
MaxSaveFailures == 1
\* reconcile workers: passes of different Services that may run at once (the
\* work queue never runs two passes of one Service at once; the controller is
\* built with the default of one worker, which this covers)
MaxConcurrentReconciles == 2
\* findUnusedVRIDPair scans the identifiers 1..maxVRID (255 in the source)
MaxVRID == 4

\* owner keys "namespace/service", service ports, addresses
Keys == {"A", "B", "C"}
Services == {"A", "B"}
Ports == {80, 443}
IPs == 1..MaxPoolLen
PortSets == (SUBSET Ports) \ {{}}

\* the pools: every non-empty list of at most MaxPoolLen addresses, repeated
\* addresses included, up to renaming of the addresses (a new address is
\* always the least unused one)
Range(q) == {q[i] : i \in DOMAIN q}
Canonical(q) ==
  \A i \in DOMAIN q : q[i] \in Range(SubSeq(q, 1, i - 1)) \cup {Cardinality(Range(SubSeq(q, 1, i - 1))) + 1}
Pools == {q \in UNION {[1..n -> IPs] : n \in 1..MaxPoolLen} : Canonical(q)}

VARIABLES
  ipPool,       \* ipam: the address pool, in configuration order
  allocations,  \* ipam: owner key -> Allocation
  ipPortUsage,  \* ipam: address -> port -> owner key
  cmAlloc,      \* the "ip-allocations" ConfigMap written by package ipam
  saveFailures, \* number of failed ConfigMap writes so far
  last,         \* outcome of the last direct store call, as returned to the caller
  impl,         \* which controller is built: "ipam" (pkg/ipam) or "utils"
  cmIPs,        \* the "ip-allocations" ConfigMap written by package utils
  svc,          \* the Service objects
  pc,           \* position of the reconciliation pass of each Service
  loc,          \* local variables of the pass, its returned error included
  nginxConf,    \* address in the vip-<cluster>-<ns>-<name>.conf file, 0 if absent
  kaVips,       \* addresses in the published keepalived configuration
  vridVersion,  \* which GetOrAllocateVRIDs is built: "lazy" or "startup"
  vridFile,     \* VRID_allocations.conf on the NGINX server: cluster -> pair
  vridCM,       \* the "vrid-allocations" ConfigMap of each cluster
  vpc,          \* position of the operator process of each cluster
  vloc,         \* locals of that process: data fetched, pair chosen, pair in use,
                \* and the error its last call returned
  mutex,        \* ipAllocationMutex: 0, or the worker that holds it
  call,         \* the AllocateIP / ReleaseIP call each worker is in
  poolData,     \* the lines of the "ip_pool" key of the ip-pool-config ConfigMap
  loaded,       \* what the load of the pool returned, and by which package
  vipOrder,     \* the allocated addresses, in the order the map is iterated
  vipGroups,    \* the two VIP groups rendered from them, and by which package
  kind,         \* Spec.Type of each Service
  rendered      \* identifiers in the rendered Keepalived files of each cluster

storeVars == <<saveFailures, ipPool, allocations, ipPortUsage, cmAlloc, last>>
vridVars == <<vridVersion, vridFile, vridCM, vpc, vloc>>
callVars == <<mutex, call>>
poolVars == <<poolData, loaded>>
groupVars == <<vipOrder, vipGroups, rendered>>
kindVars == <<kind>>
operatorVars == <<saveFailures, ipPool, allocations, ipPortUsage, cmAlloc, last,
                  impl, cmIPs, svc, pc, loc, nginxConf, kaVips, callVars, poolVars,
                  groupVars, kindVars>>
buildVars == <<impl, vridVars, callVars, poolVars, groupVars, kindVars>>
operatorRest == <<saveFailures, ipPool, allocations, ipPortUsage, cmAlloc, last,
                  impl, cmIPs, svc, pc, loc, nginxConf, kaVips, callVars, poolVars,
                  groupVars>>
reconVars == <<buildVars, cmIPs, svc, pc, loc, nginxConf, kaVips>>
vars == <<saveFailures, ipPool, allocations, ipPortUsage, cmAlloc, last,
          impl, cmIPs, svc, pc, loc, nginxConf, kaVips,
          vridVersion, vridFile, vridCM, vpc, vloc, mutex, call,
          poolData, loaded, vipOrder, vipGroups, kind, rendered>>

\* ------------------------------------------------------------ Go map helpers
EmptyMap == [x \in {} |-> 0]
Put(f, k, v) == [x \in (DOMAIN f) \cup {k} |-> IF x = k THEN v ELSE f[x]]
Del(f, K) == [x \in (DOMAIN f) \ K |-> f[x]]

\* ------------------------------------------------------------ package ipam
\* allocationsToList / json.Marshal: the list of Allocation structs
allocationsToList(allocs) ==
  {[key |-> k, ip |-> allocs[k].ip, ports |-> allocs[k].ports] : k \in DOMAIN allocs}

\* loadAllocations: the allocations map built from the stored list
loadAllocationsMap(list) ==
  [k \in {r.key : r \in list} |->
     LET r == CHOOSE r \in list : r.key = k IN [ip |-> r.ip, ports |-> r.ports]]

\* loadAllocations that rebuilds the allocations map only
loadAllocationsUsageNone(list) == EmptyMap

\* loadAllocations: the port usage built from the stored list
loadAllocationsUsage(list) ==
  [ip \in {r.ip : r \in list} |->
     [p \in UNION {r.ports : r \in {q \in list : q.ip = ip}} |->
        (CHOOSE r \in list : r.ip = ip /\ p \in r.ports).key]]

NotFound == [exists |-> FALSE, data |-> {}]

\* saveAllocations: create-or-update of the ConfigMap; ok = FALSE is a failed
\* Get, Create or Update, which leaves the ConfigMap as it was
saveAllocations(allocs, cm, ok) ==
  IF ok THEN [exists |-> TRUE, data |-> allocationsToList(allocs)] ELSE cm

\* ScanPool with a conflict test that needs every requested port in use
RECURSIVE ScanPoolAllPorts(_, _, _, _)
ScanPoolAllPorts(pool, i, usage, ports) ==
  IF i > Len(pool) THEN [found |-> FALSE, ip |-> 0, usage |-> usage]
  ELSE LET ip == pool[i]
           usage1 == IF ip \in DOMAIN usage THEN usage ELSE Put(usage, ip, EmptyMap)
           conflict == \A p \in ports : p \in DOMAIN usage1[ip]
       IN IF conflict THEN ScanPoolAllPorts(pool, i + 1, usage1, ports)
          ELSE [found |-> TRUE, ip |-> ip, usage |-> usage1]

\* ScanPool that keeps scanning after a fit and returns the last one
RECURSIVE ScanPoolLastFit(_, _, _, _)
ScanPoolLastFit(pool, i, usage, ports) ==
  IF i > Len(pool) THEN [found |-> FALSE, ip |-> 0, usage |-> usage]
  ELSE LET ip == pool[i]
           usage1 == IF ip \in DOMAIN usage THEN usage ELSE Put(usage, ip, EmptyMap)
           conflict == \E p \in ports : p \in DOMAIN usage1[ip]
           rest == ScanPoolLastFit(pool, i + 1, usage, ports)
       IN IF conflict \/ rest.found THEN rest
          ELSE [found |-> TRUE, ip |-> ip, usage |-> usage1]

\* the scan of AllocateIPAndPorts over the pool: the first address without a
\* conflict, with the usage entries the scan creates on its way
RECURSIVE ScanPool(_, _, _, _)
ScanPool(pool, i, usage, ports) ==
  IF i > Len(pool) THEN [found |-> FALSE, ip |-> 0, usage |-> usage]
  ELSE LET ip == pool[i]
           usage1 == IF ip \in DOMAIN usage THEN usage ELSE Put(usage, ip, EmptyMap)
           conflict == \E p \in ports : p \in DOMAIN usage1[ip]
       IN IF conflict THEN ScanPool(pool, i + 1, usage1, ports)
          ELSE [found |-> TRUE, ip |-> ip, usage |-> usage1]

RECURSIVE PutPorts(_, _, _)
PutPorts(portUsage, ports, key) ==
  IF ports = {} THEN portUsage
  ELSE LET p == CHOOSE p \in ports : TRUE
       IN PutPorts(Put(portUsage, p, key), ports \ {p}, key)

\* AllocateIPAndPorts without the lookup of an existing allocation
AllocateIPAndPortsNoLookup(st, key, ports, saveOk) ==
  LET scan == ScanPool(ipPool, 1, st.ipPortUsage, ports)
  IN IF ~scan.found
     THEN [st |-> [st EXCEPT !.ipPortUsage = scan.usage],
           res |-> [op |-> "allocate", key |-> key, ports |-> ports,
                    err |-> "nocapacity", new |-> FALSE, ip |-> 0]]
     ELSE LET usage2 == [scan.usage EXCEPT ![scan.ip] = PutPorts(@, ports, key)]
              allocs2 == Put(st.allocations, key, [ip |-> scan.ip, ports |-> ports])
          IN [st |-> [allocations |-> allocs2, ipPortUsage |-> usage2,
                      cm |-> saveAllocations(allocs2, st.cm, saveOk)],
              res |-> [op |-> "allocate", key |-> key, ports |-> ports,
                       err |-> IF saveOk THEN "none" ELSE "save",
                       new |-> TRUE, ip |-> scan.ip]]

\* AllocateIPAndPorts that falls back to the first pool address when no
\* address is free of conflicts
AllocateIPAndPortsFallback(st, key, ports, saveOk) ==
  IF key \in DOMAIN st.allocations
  THEN [st |-> st,
        res |-> [op |-> "allocate", key |-> key, ports |-> ports,
                 err |-> "none", new |-> FALSE, ip |-> st.allocations[key].ip]]
  ELSE LET scan0 == ScanPool(ipPool, 1, st.ipPortUsage, ports)
           scan == IF scan0.found \/ Len(ipPool) = 0 THEN scan0
                   ELSE [found |-> TRUE, ip |-> ipPool[1], usage |-> scan0.usage]
       IN IF ~scan.found
          THEN [st |-> [st EXCEPT !.ipPortUsage = scan.usage],
                res |-> [op |-> "allocate", key |-> key, ports |-> ports,
                         err |-> "nocapacity", new |-> FALSE, ip |-> 0]]
          ELSE LET usage2 == [scan.usage EXCEPT ![scan.ip] = PutPorts(@, ports, key)]
                   allocs2 == Put(st.allocations, key, [ip |-> scan.ip, ports |-> ports])
               IN [st |-> [allocations |-> allocs2, ipPortUsage |-> usage2,
                           cm |-> saveAllocations(allocs2, st.cm, saveOk)],
                   res |-> [op |-> "allocate", key |-> key, ports |-> ports,
                            err |-> IF saveOk THEN "none" ELSE "save",
                            new |-> TRUE, ip |-> scan.ip]]

\* AllocateIPAndPorts(namespace, service, ports) on the store
\* st = [allocations, ipPortUsage, cm]; returns the store and the result
AllocateIPAndPorts(st, key, ports, saveOk) ==
  IF key \in DOMAIN st.allocations
  THEN [st |-> st,
        res |-> [op |-> "allocate", key |-> key, ports |-> ports,
                 err |-> "none", new |-> FALSE, ip |-> st.allocations[key].ip]]
  ELSE LET scan == ScanPool(ipPool, 1, st.ipPortUsage, ports)
       IN IF ~scan.found
          THEN [st |-> [st EXCEPT !.ipPortUsage = scan.usage],
                res |-> [op |-> "allocate", key |-> key, ports |-> ports,
                         err |-> "nocapacity", new |-> FALSE, ip |-> 0]]
          ELSE LET usage2 == [scan.usage EXCEPT ![scan.ip] = PutPorts(@, ports, key)]
                   allocs2 == Put(st.allocations, key, [ip |-> scan.ip, ports |-> ports])
               IN [st |-> [allocations |-> allocs2, ipPortUsage |-> usage2,
                           cm |-> saveAllocations(allocs2, st.cm, saveOk)],
                   res |-> [op |-> "allocate", key |-> key, ports |-> ports,
                            err |-> IF saveOk THEN "none" ELSE "save",
                            new |-> TRUE, ip |-> scan.ip]]

\* ReleaseAllocation that leaves the emptied address entry in the index
ReleaseAllocationKeepsEntry(st, key, saveOk) ==
  IF key \notin DOMAIN st.allocations
  THEN [st |-> st,
        res |-> [op |-> "release", key |-> key, ports |-> {},
                 err |-> "none", new |-> FALSE, ip |-> 0]]
  ELSE LET alloc == st.allocations[key]
           portUsage == Del(st.ipPortUsage[alloc.ip], alloc.ports)
           usage2 == [st.ipPortUsage EXCEPT ![alloc.ip] = portUsage]
           allocs2 == Del(st.allocations, {key})
       IN [st |-> [allocations |-> allocs2, ipPortUsage |-> usage2,
                   cm |-> saveAllocations(allocs2, st.cm, saveOk)],
           res |-> [op |-> "release", key |-> key, ports |-> alloc.ports,
                    err |-> IF saveOk THEN "none" ELSE "save",
                    new |-> TRUE, ip |-> alloc.ip]]

\* ReleaseAllocation that removes the allocation but not its ports
ReleaseAllocationKeepsPorts(st, key, saveOk) ==
  IF key \notin DOMAIN st.allocations
  THEN [st |-> st,
        res |-> [op |-> "release", key |-> key, ports |-> {},
                 err |-> "none", new |-> FALSE, ip |-> 0]]
  ELSE LET alloc == st.allocations[key]
           allocs2 == Del(st.allocations, {key})
       IN [st |-> [allocations |-> allocs2, ipPortUsage |-> st.ipPortUsage,
                   cm |-> saveAllocations(allocs2, st.cm, saveOk)],
           res |-> [op |-> "release", key |-> key, ports |-> alloc.ports,
                    err |-> IF saveOk THEN "none" ELSE "save",
                    new |-> TRUE, ip |-> alloc.ip]]

\* ReleaseAllocation(namespace, service)
ReleaseAllocation(st, key, saveOk) ==
  IF key \notin DOMAIN st.allocations
  THEN [st |-> st,
        res |-> [op |-> "release", key |-> key, ports |-> {},
                 err |-> "none", new |-> FALSE, ip |-> 0]]
  ELSE LET alloc == st.allocations[key]
           portUsage == Del(st.ipPortUsage[alloc.ip], alloc.ports)
           usage2 == IF DOMAIN portUsage = {}
                     THEN Del(st.ipPortUsage, {alloc.ip})
                     ELSE [st.ipPortUsage EXCEPT ![alloc.ip] = portUsage]
           allocs2 == Del(st.allocations, {key})
       IN [st |-> [allocations |-> allocs2, ipPortUsage |-> usage2,
                   cm |-> saveAllocations(allocs2, st.cm, saveOk)],
           res |-> [op |-> "release", key |-> key, ports |-> alloc.ports,
                    err |-> IF saveOk THEN "none" ELSE "save",
                    new |-> TRUE, ip |-> alloc.ip]]

Store == [allocations |-> allocations, ipPortUsage |-> ipPortUsage, cm |-> cmAlloc]

NoCall == [op |-> "none", key |-> "", ports |-> {}, err |-> "none", new |-> FALSE, ip |-> 0]

\* ------------------------------------------------------------ store actions
NoService == [present |-> FALSE, deleting |-> FALSE, finalizer |-> FALSE, port |-> 0, status |-> 0]
NoLocals == [ip |-> 0, port |-> 0, allocated |-> FALSE, notfound |-> FALSE,
             ret |-> "", err |-> ""]

\* no Service exists, no pass runs, nothing is published
ReconIdle ==
  /\ cmIPs = [exists |-> FALSE, data |-> EmptyMap]
  /\ svc = [k \in Services |-> NoService]
  /\ pc = [k \in Services |-> "idle"]
  /\ loc = [k \in Services |-> NoLocals]
  /\ nginxConf = [k \in Services |-> 0]
  /\ kaVips = {}

\* clusters that share the NGINX server; each runs one operator process
Clusters == {"c1", "c2"}
NoPair == <<0, 0>>
NoVRIDLocals == [data |-> EmptyMap, pair |-> NoPair, vrids |-> NoPair, err |-> "none"]
VRIDError(e) == [NoVRIDLocals EXCEPT !.err = e]

\* no operator process runs, no VRID was ever allocated
VRIDIdle ==
  /\ vridFile = EmptyMap
  /\ vridCM = [c \in Clusters |-> [exists |-> FALSE, data |-> EmptyMap]]
  /\ vpc = [c \in Clusters |-> "down"]
  /\ vloc = [c \in Clusters |-> NoVRIDLocals]

\* the pool text is not looked at
NotLoaded == [by |-> "none", err |-> "none", ips |-> <<>>, init |-> FALSE]
\* no Keepalived configuration was rendered
NoGroups == [by |-> "none", group1 |-> <<>>, group2 |-> <<>>]
NoRender == [by |-> "none", primary |-> NoPair, secondary |-> NoPair]
RenderIdle == rendered = [c \in Clusters |-> NoRender]
GroupsIdle == vipOrder = <<>> /\ vipGroups = NoGroups /\ RenderIdle

\* every Service is of type LoadBalancer
Kinds == {"LoadBalancer", "ClusterIP"}
KindsIdle == kind = [k \in Services |-> "LoadBalancer"]

PoolIdle ==
  /\ poolData = <<>>
  /\ loaded = NotLoaded

\* the reconcile workers, and a worker outside any AllocateIP / ReleaseIP
Workers == 1..MaxConcurrentReconciles
NoCallLocals == [pc |-> "idle", op |-> "none", key |-> "",
                 cm |-> [exists |-> FALSE, data |-> EmptyMap], res |-> NoCall]

CallIdle ==
  /\ mutex = 0
  /\ call = [w \in Workers |-> NoCallLocals]

\* ipam.Init on a fresh cluster: pool parsed, no ConfigMap yet
Init ==
  /\ ipPool \in Pools
  /\ allocations = EmptyMap
  /\ ipPortUsage = EmptyMap
  /\ cmAlloc = NotFound
  /\ last = NoCall
  /\ saveFailures = 0
  /\ impl = "ipam"
  /\ ReconIdle
  /\ vridVersion = "startup"
  /\ VRIDIdle
  /\ CallIdle
  /\ PoolIdle
  /\ GroupsIdle
  /\ KindsIdle

\* a caller invokes ipam.AllocateIPAndPorts
Allocate(key, ports, saveOk) ==
  LET r == AllocateIPAndPorts(Store, key, ports, saveOk)
  IN /\ allocations' = r.st.allocations
     /\ ipPortUsage' = r.st.ipPortUsage
     /\ cmAlloc' = r.st.cm
     /\ last' = r.res
     /\ saveFailures' = IF r.res.err = "save" THEN saveFailures + 1 ELSE saveFailures
     /\ saveFailures' <= MaxSaveFailures
     /\ UNCHANGED <<ipPool, reconVars>>

\* a caller invokes ipam.ReleaseAllocation
Release(key, saveOk) ==
  LET r == ReleaseAllocation(Store, key, saveOk)
  IN /\ allocations' = r.st.allocations
     /\ ipPortUsage' = r.st.ipPortUsage
     /\ cmAlloc' = r.st.cm
     /\ last' = r.res
     /\ saveFailures' = IF r.res.err = "save" THEN saveFailures + 1 ELSE saveFailures
     /\ saveFailures' <= MaxSaveFailures
     /\ UNCHANGED <<ipPool, reconVars>>

\* process restart: ipam.Init reloads the maps from the ConfigMap
Restart ==
  /\ allocations' = loadAllocationsMap(cmAlloc.data)
  /\ ipPortUsage' = loadAllocationsUsage(cmAlloc.data)
  /\ last' = [NoCall EXCEPT !.op = "init"]
  /\ UNCHANGED <<ipPool, cmAlloc, saveFailures, reconVars>>

DoAllocate == \E k \in Keys, ps \in PortSets, ok \in BOOLEAN : Allocate(k, ps, ok)
DoRelease == \E k \in Keys, ok \in BOOLEAN : Release(k, ok)

Next ==
  \/ DoAllocate
  \/ DoRelease
  \/ Restart

Spec == Init /\ [][Next]_vars

\* ------------------------------------------------------------ package utils
\* LoadAllocatedIPs: the address -> owner map read from the ConfigMap
LoadAllocatedIPs(cm) == cm.data

\* SaveAllocatedIPs: Update, or Create when the ConfigMap does not exist
SaveAllocatedIPs(allocatedIPs) == [exists |-> TRUE, data |-> allocatedIPs]

\* IsIPAllocatedToService that never finds the owner
IsIPAllocatedToServiceNever(cm, key) == FALSE

\* IsIPAllocatedToService
IsIPAllocatedToService(cm, key) ==
  \E ip \in DOMAIN LoadAllocatedIPs(cm) : LoadAllocatedIPs(cm)[ip] = key

\* the addresses GetAllocatedIPForService / ReleaseIP may meet first when
\* ranging over the map
AddressesOf(cm, key) ==
  {ip \in DOMAIN LoadAllocatedIPs(cm) : LoadAllocatedIPs(cm)[ip] = key}

\* the loop of AllocateIP: index of the first pool address not in the map
RECURSIVE FirstUnallocated(_, _, _)
FirstUnallocated(pool, i, allocatedIPs) ==
  IF i > Len(pool) THEN 0
  ELSE IF pool[i] \notin DOMAIN allocatedIPs THEN i
  ELSE FirstUnallocated(pool, i + 1, allocatedIPs)

\* AllocateIP(service); ok = FALSE is a failing ConfigMap read or write
AllocateIP(cm, pool, key, ok) ==
  LET allocatedIPs == LoadAllocatedIPs(cm)
      i == FirstUnallocated(pool, 1, allocatedIPs)
  IN IF ~ok
     THEN [cm |-> cm, res |-> [op |-> "allocate", key |-> key, ports |-> {},
                               err |-> "api", new |-> FALSE, ip |-> 0]]
     ELSE IF i = 0
     THEN [cm |-> cm, res |-> [op |-> "allocate", key |-> key, ports |-> {},
                               err |-> "nocapacity", new |-> FALSE, ip |-> 0]]
     ELSE [cm |-> SaveAllocatedIPs(Put(allocatedIPs, pool[i], key)),
           res |-> [op |-> "allocate", key |-> key, ports |-> {},
                    err |-> "none", new |-> TRUE, ip |-> pool[i]]]

\* ReleaseIP(service), ip being the owner's address the map iteration meets
\* first (0 when there is none)
ReleaseIP(cm, key, ip, ok) ==
  IF ~ok
  THEN [cm |-> cm, res |-> [op |-> "release", key |-> key, ports |-> {},
                            err |-> "api", new |-> FALSE, ip |-> 0]]
  ELSE IF ip = 0
  THEN [cm |-> cm, res |-> [op |-> "release", key |-> key, ports |-> {},
                            err |-> "notfound", new |-> FALSE, ip |-> 0]]
  ELSE [cm |-> SaveAllocatedIPs(Del(LoadAllocatedIPs(cm), {ip})),
        res |-> [op |-> "release", key |-> key, ports |-> {},
                 err |-> "none", new |-> TRUE, ip |-> ip]]

\* ipam.GetAllocatedIPs: the addresses of the in-memory allocations
GetAllocatedIPs == {allocations[k].ip : k \in DOMAIN allocations}

\* ------------------------------------------------------------ the cluster
\* a LoadBalancer Service with one port is created
CreateService(k, port) ==
  /\ ~svc[k].present
  /\ svc' = [svc EXCEPT ![k] = [present |-> TRUE, deleting |-> FALSE,
                                finalizer |-> FALSE, port |-> port, status |-> 0]]
  /\ UNCHANGED <<storeVars, buildVars, cmIPs, pc, loc, nginxConf, kaVips>>

\* the Service is deleted: with a finalizer it stays, marked for deletion
DeleteService(k) ==
  /\ svc[k].present /\ ~svc[k].deleting
  /\ svc' = [svc EXCEPT ![k] = IF svc[k].finalizer THEN [@ EXCEPT !.deleting = TRUE]
                                ELSE NoService]
  /\ UNCHANGED <<storeVars, buildVars, cmIPs, pc, loc, nginxConf, kaVips>>

\* ------------------------------------------------------------ pass control
Running == {k \in Services : pc[k] # "idle"}

\* the pass moves on to its next call, its locals becoming l
GotoWith(k, p, l) ==
  /\ pc' = [pc EXCEPT ![k] = p]
  /\ loc' = [loc EXCEPT ![k] = l]

Goto(k, p) == GotoWith(k, p, loc[k])

\* the pass is about to return: ret is "ok", "requeue" (RequeueAfter) or
\* "error", err names the failed call
Fail(k, ret, err) == GotoWith(k, "return", [loc[k] EXCEPT !.ret = ret, !.err = err])

Done(k) == GotoWith(k, "return", [loc[k] EXCEPT !.ret = "ok"])

\* a Reconcile whose error is dropped instead of requeued
ReturnNoRequeue(k) ==
  /\ pc[k] = "return"
  /\ GotoWith(k, IF loc[k].ret = "ok" THEN "idle" ELSE "dropped", NoLocals)
  /\ UNCHANGED <<storeVars, buildVars, cmIPs, svc, nginxConf, kaVips>>

\* Reconcile returns to the work queue
Return(k) ==
  /\ pc[k] = "return"
  /\ GotoWith(k, "idle", NoLocals)
  /\ UNCHANGED <<storeVars, buildVars, cmIPs, svc, nginxConf, kaVips>>

\* the removal of the finalizer lets a Service marked for deletion go
WithoutFinalizer(s) == IF s.deleting THEN NoService ELSE [s EXCEPT !.finalizer = FALSE]

\* what a publication leaves on the servers: the new content, or on failure
\* the old or the new content
Published(ok, old, new) == IF ok THEN {new} ELSE {old, new}

\* ------------------------------------------- controller over package ipam
\* the effect of an ipam call on the store
StoreCall(r) ==
  /\ allocations' = r.st.allocations
  /\ ipPortUsage' = r.st.ipPortUsage
  /\ cmAlloc' = r.st.cm
  /\ saveFailures' = IF r.res.err = "save" THEN saveFailures + 1 ELSE saveFailures
  /\ saveFailures' <= MaxSaveFailures
  /\ UNCHANGED <<ipPool, last>>

\* Reconcile up to the call of handleService or handleServiceDeletion:
\* Get, finalizer Update, deletion dispatch, wait for endpoints
Reconcile(k, ok) ==
  /\ impl = "ipam" /\ pc[k] = "idle"
  /\ Cardinality(Running) < MaxConcurrentReconciles
  /\ IF ~ok
     THEN Fail(k, "error", "get") /\ UNCHANGED svc
     ELSE IF ~svc[k].present
     THEN /\ GotoWith(k, "del_release", [NoLocals EXCEPT !.notfound = TRUE])
          /\ UNCHANGED svc
     ELSE IF kind[k] # "LoadBalancer"
     THEN Done(k) /\ UNCHANGED svc
     ELSE IF svc[k].deleting
     THEN /\ IF svc[k].finalizer THEN Goto(k, "del_release") ELSE Done(k)
          /\ UNCHANGED svc
     ELSE /\ svc' = [svc EXCEPT ![k].finalizer = TRUE]
          /\ \/ GotoWith(k, "alloc", [NoLocals EXCEPT !.port = svc[k].port])
             \/ Fail(k, "requeue", "noendpoints")
  /\ UNCHANGED <<storeVars, buildVars, cmIPs, nginxConf, kaVips>>

\* handleService: ipam.AllocateIPAndPorts
HandleServiceAllocate(k, saveOk) ==
  /\ impl = "ipam" /\ pc[k] = "alloc"
  /\ LET r == AllocateIPAndPorts(Store, k, {loc[k].port}, saveOk)
     IN /\ StoreCall(r)
        /\ IF r.res.err = "none"
           THEN GotoWith(k, "vrid", [loc[k] EXCEPT !.ip = r.res.ip, !.allocated = TRUE])
           ELSE Fail(k, "requeue", r.res.err)
  /\ UNCHANGED <<buildVars, cmIPs, svc, nginxConf, kaVips>>

\* handleService: nginx.GetOrAllocateVRID
HandleServiceVRID(k, ok) ==
  /\ impl = "ipam" /\ pc[k] = "vrid"
  /\ IF ok THEN Goto(k, "endpoints")
     ELSE GotoWith(k, "rollback", [loc[k] EXCEPT !.err = "vrid"])
  /\ UNCHANGED <<storeVars, buildVars, cmIPs, svc, nginxConf, kaVips>>

\* handleService: Get of the Endpoints and getNodeIPsForEndpoints
HandleServiceEndpoints(k, ok) ==
  /\ impl = "ipam" /\ pc[k] = "endpoints"
  /\ IF ok THEN Goto(k, "keepalived")
     ELSE GotoWith(k, "rollback", [loc[k] EXCEPT !.err = "endpoints"])
  /\ UNCHANGED <<storeVars, buildVars, cmIPs, svc, nginxConf, kaVips>>

\* handleService: nginx.UpdateKeepalivedConfigs
HandleServiceKeepalived(k, ok) ==
  /\ impl = "ipam" /\ pc[k] = "keepalived"
  /\ kaVips' \in Published(ok, kaVips, GetAllocatedIPs)
  /\ IF ok THEN Goto(k, "nginx")
     ELSE GotoWith(k, "rollback", [loc[k] EXCEPT !.err = "keepalived"])
  /\ UNCHANGED <<storeVars, buildVars, cmIPs, svc, nginxConf>>

\* handleService: nginx.ConfigureService, then configApplied = true
HandleServiceConfigure(k, ok) ==
  /\ impl = "ipam" /\ pc[k] = "nginx"
  /\ \E c \in Published(ok, nginxConf[k], loc[k].ip) :
       nginxConf' = [nginxConf EXCEPT ![k] = c]
  /\ IF ok THEN Goto(k, "status")
     ELSE GotoWith(k, "rollback", [loc[k] EXCEPT !.err = "nginx"])
  /\ UNCHANGED <<storeVars, buildVars, cmIPs, svc, kaVips>>

\* handleService: Status().Update with the allocated address
HandleServiceStatus(k, ok) ==
  /\ impl = "ipam" /\ pc[k] = "status"
  /\ IF ok /\ svc[k].present
     THEN svc' = [svc EXCEPT ![k].status = loc[k].ip] /\ Done(k)
     ELSE UNCHANGED svc /\ Fail(k, "requeue", "status")
  /\ UNCHANGED <<storeVars, buildVars, cmIPs, nginxConf, kaVips>>

\* handleService: the deferred rollback, allocated and not configApplied
HandleServiceRollback(k, saveOk) ==
  /\ impl = "ipam" /\ pc[k] = "rollback"
  /\ StoreCall(ReleaseAllocation(Store, k, saveOk))
  /\ Fail(k, "requeue", loc[k].err)
  /\ UNCHANGED <<buildVars, cmIPs, svc, nginxConf, kaVips>>

\* handleServiceDeletion: ipam.ReleaseAllocation
HandleServiceDeletionRelease(k, saveOk) ==
  /\ impl = "ipam" /\ pc[k] = "del_release"
  /\ LET r == ReleaseAllocation(Store, k, saveOk)
     IN /\ StoreCall(r)
        /\ IF r.res.err = "none" THEN Goto(k, "del_nginx")
           ELSE Fail(k, "error", r.res.err)
  /\ UNCHANGED <<buildVars, cmIPs, svc, nginxConf, kaVips>>

\* handleServiceDeletion: nginx.RemoveServiceConfiguration
HandleServiceDeletionRemove(k, ok) ==
  /\ impl = "ipam" /\ pc[k] = "del_nginx"
  /\ IF ok
     THEN nginxConf' = [nginxConf EXCEPT ![k] = 0] /\ Goto(k, "del_keepalived")
     ELSE UNCHANGED nginxConf /\ Fail(k, "error", "remove")
  /\ UNCHANGED <<storeVars, buildVars, cmIPs, svc, kaVips>>

\* handleServiceDeletion: nginx.UpdateKeepalivedConfigs, and the return to
\* Reconcile
HandleServiceDeletionKeepalived(k, ok) ==
  /\ impl = "ipam" /\ pc[k] = "del_keepalived"
  /\ kaVips' \in Published(ok, kaVips, GetAllocatedIPs)
  /\ IF ~ok THEN Fail(k, "error", "keepalived")
     ELSE IF loc[k].notfound THEN Done(k)
     ELSE Goto(k, "del_marker")
  /\ UNCHANGED <<storeVars, buildVars, cmIPs, svc, nginxConf>>

\* Reconcile: the finalizer is removed after handleServiceDeletion
RemoveFinalizer(k, ok) ==
  /\ impl = "ipam" /\ pc[k] = "del_marker"
  /\ IF ok
     THEN svc' = [svc EXCEPT ![k] = WithoutFinalizer(@)] /\ Done(k)
     ELSE UNCHANGED svc /\ Fail(k, "error", "finalizer")
  /\ UNCHANGED <<storeVars, buildVars, cmIPs, nginxConf, kaVips>>

\* ------------------------------------------ controller over package utils
\* the effect of a utils call on the ConfigMap
ConfigMapCall(r) ==
  /\ cmIPs' = r.cm
  /\ UNCHANGED storeVars

\* a Reconcile that goes on to reconcileService without the finalizer Update
ReconcileUtilsNoMarker(k, ok) ==
  /\ impl = "utils" /\ pc[k] = "idle"
  /\ Cardinality(Running) < MaxConcurrentReconciles
  /\ IF ~svc[k].present THEN Done(k)
     ELSE IF svc[k].deleting
     THEN IF svc[k].finalizer THEN Goto(k, "fin_nginx") ELSE Done(k)
     ELSE Goto(k, "check")
  /\ UNCHANGED <<storeVars, buildVars, cmIPs, svc, nginxConf, kaVips>>

\* a Reconcile that does not look at the type of the Service
ReconcileUtilsAnyType(k, ok) ==
  /\ impl = "utils" /\ pc[k] = "idle"
  /\ Cardinality(Running) < MaxConcurrentReconciles
  /\ IF ~ok
     THEN Fail(k, "error", "get") /\ UNCHANGED svc
     ELSE IF ~svc[k].present
     THEN Done(k) /\ UNCHANGED svc
     ELSE IF svc[k].deleting
     THEN /\ IF svc[k].finalizer THEN Goto(k, "fin_nginx") ELSE Done(k)
          /\ UNCHANGED svc
     ELSE /\ svc' = [svc EXCEPT ![k].finalizer = TRUE]
          /\ Goto(k, "check")
  /\ UNCHANGED <<storeVars, buildVars, cmIPs, nginxConf, kaVips>>

\* Reconcile up to the call of reconcileService or finalizeService:
\* Get, handleDeletedService, type check, finalizer Update, deletion dispatch
ReconcileUtils(k, ok) ==
  /\ impl = "utils" /\ pc[k] = "idle"
  /\ Cardinality(Running) < MaxConcurrentReconciles
  /\ IF ~ok
     THEN Fail(k, "error", "get") /\ UNCHANGED svc
     ELSE IF ~svc[k].present
     THEN Done(k) /\ UNCHANGED svc
     ELSE IF kind[k] # "LoadBalancer"
     THEN Done(k) /\ UNCHANGED svc
     ELSE IF svc[k].deleting
     THEN /\ IF svc[k].finalizer THEN Goto(k, "fin_nginx") ELSE Done(k)
          /\ UNCHANGED svc
     ELSE /\ svc' = [svc EXCEPT ![k].finalizer = TRUE]
          /\ Goto(k, "check")
  /\ UNCHANGED <<storeVars, buildVars, cmIPs, nginxConf, kaVips>>

\* reconcileService: utils.IsIPAllocatedToService
ReconcileServiceCheck(k, ok) ==
  /\ impl = "utils" /\ pc[k] = "check"
  /\ IF ~ok THEN Fail(k, "error", "api")
     ELSE Goto(k, IF IsIPAllocatedToService(cmIPs, k) THEN "get" ELSE "alloc")
  /\ UNCHANGED <<storeVars, buildVars, cmIPs, svc, nginxConf, kaVips>>

\* reconcileService: utils.AllocateIP
ReconcileServiceAllocate(k, ok) ==
  /\ impl = "utils" /\ pc[k] = "alloc"
  /\ LET r == AllocateIP(cmIPs, ipPool, k, ok)
     IN /\ ConfigMapCall(r)
        /\ IF r.res.err = "none"
           THEN GotoWith(k, "vrid", [loc[k] EXCEPT !.ip = r.res.ip, !.allocated = TRUE])
           ELSE Fail(k, "error", r.res.err)
  /\ UNCHANGED <<buildVars, svc, nginxConf, kaVips>>

\* reconcileService: utils.GetAllocatedIPForService
ReconcileServiceGet(k, ok) ==
  /\ impl = "utils" /\ pc[k] = "get"
  /\ IF ~ok THEN Fail(k, "error", "api")
     ELSE IF AddressesOf(cmIPs, k) = {} THEN Fail(k, "error", "notfound")
     ELSE \E ip \in AddressesOf(cmIPs, k) : GotoWith(k, "vrid", [loc[k] EXCEPT !.ip = ip])
  /\ UNCHANGED <<storeVars, buildVars, cmIPs, svc, nginxConf, kaVips>>

\* reconcileService: utils.GetOrAllocateVRIDs
ReconcileServiceVRIDs(k, ok) ==
  /\ impl = "utils" /\ pc[k] = "vrid"
  /\ IF ok THEN Goto(k, "keepalived") ELSE Fail(k, "error", "vrid")
  /\ UNCHANGED <<storeVars, buildVars, cmIPs, svc, nginxConf, kaVips>>

\* a reconcileService that goes on when ConfigureKeepalived fails
ReconcileServiceKeepalivedUnchecked(k, ok) ==
  /\ impl = "utils" /\ pc[k] = "keepalived"
  /\ kaVips' \in Published(ok, kaVips, DOMAIN LoadAllocatedIPs(cmIPs))
  /\ Goto(k, "nginx")
  /\ UNCHANGED <<storeVars, buildVars, cmIPs, svc, nginxConf>>

\* reconcileService: utils.ConfigureKeepalived
ReconcileServiceKeepalived(k, ok) ==
  /\ impl = "utils" /\ pc[k] = "keepalived"
  /\ kaVips' \in Published(ok, kaVips, DOMAIN LoadAllocatedIPs(cmIPs))
  /\ IF ok THEN Goto(k, "nginx") ELSE Fail(k, "error", "keepalived")
  /\ UNCHANGED <<storeVars, buildVars, cmIPs, svc, nginxConf>>

\* reconcileService: utils.ConfigureNGINX
ReconcileServiceNGINX(k, ok) ==
  /\ impl = "utils" /\ pc[k] = "nginx"
  /\ \E c \in Published(ok, nginxConf[k], loc[k].ip) :
       nginxConf' = [nginxConf EXCEPT ![k] = c]
  /\ IF ok THEN Goto(k, "status") ELSE Fail(k, "error", "nginx")
  /\ UNCHANGED <<storeVars, buildVars, cmIPs, svc, kaVips>>

\* reconcileService: utils.ConfigureNGINX when GetServiceEndpoints finds no
\* address, which fails before anything is copied to the NGINX server
ReconcileServiceNoEndpoints(k) ==
  /\ impl = "utils" /\ pc[k] = "nginx"
  /\ Fail(k, "error", "noendpoints")
  /\ UNCHANGED <<storeVars, buildVars, cmIPs, svc, nginxConf, kaVips>>

\* reconcileService: refetch of the Service and Status().Update
ReconcileServiceStatus(k, ok) ==
  /\ impl = "utils" /\ pc[k] = "status"
  /\ IF ok /\ svc[k].present
     THEN svc' = [svc EXCEPT ![k].status = loc[k].ip] /\ Done(k)
     ELSE UNCHANGED svc /\ Fail(k, "error", "status")
  /\ UNCHANGED <<storeVars, buildVars, cmIPs, nginxConf, kaVips>>

\* finalizeService: utils.RemoveNGINXConfig
FinalizeServiceRemove(k, ok) ==
  /\ impl = "utils" /\ pc[k] = "fin_nginx"
  /\ \E c \in Published(ok, nginxConf[k], 0) :
       nginxConf' = [nginxConf EXCEPT ![k] = c]
  /\ IF ok THEN Goto(k, "fin_release") ELSE Fail(k, "error", "remove")
  /\ UNCHANGED <<storeVars, buildVars, cmIPs, svc, kaVips>>

\* finalizeService: utils.ReleaseIP
FinalizeServiceRelease(k, ok) ==
  /\ impl = "utils" /\ pc[k] = "fin_release"
  /\ \E ip \in IF AddressesOf(cmIPs, k) = {} THEN {0} ELSE AddressesOf(cmIPs, k) :
       LET r == ReleaseIP(cmIPs, k, ip, ok)
       IN /\ ConfigMapCall(r)
          /\ IF r.res.err = "none" THEN Goto(k, "fin_vrid")
             ELSE Fail(k, "error", r.res.err)
  /\ UNCHANGED <<buildVars, svc, nginxConf, kaVips>>

\* finalizeService: utils.GetOrAllocateVRIDs
FinalizeServiceVRIDs(k, ok) ==
  /\ impl = "utils" /\ pc[k] = "fin_vrid"
  /\ IF ok THEN Goto(k, "fin_keepalived") ELSE Fail(k, "error", "vrid")
  /\ UNCHANGED <<storeVars, buildVars, cmIPs, svc, nginxConf, kaVips>>

\* a finalizeService that goes on when ConfigureKeepalived fails
FinalizeServiceKeepalivedUnchecked(k, ok) ==
  /\ impl = "utils" /\ pc[k] = "fin_keepalived"
  /\ kaVips' \in Published(ok, kaVips, DOMAIN LoadAllocatedIPs(cmIPs))
  /\ Goto(k, "fin_marker")
  /\ UNCHANGED <<storeVars, buildVars, cmIPs, svc, nginxConf>>

\* finalizeService: utils.ConfigureKeepalived
FinalizeServiceKeepalived(k, ok) ==
  /\ impl = "utils" /\ pc[k] = "fin_keepalived"
  /\ kaVips' \in Published(ok, kaVips, DOMAIN LoadAllocatedIPs(cmIPs))
  /\ IF ok THEN Goto(k, "fin_marker") ELSE Fail(k, "error", "keepalived")
  /\ UNCHANGED <<storeVars, buildVars, cmIPs, svc, nginxConf>>

\* Reconcile: the finalizer is removed after finalizeService
RemoveFinalizerUtils(k, ok) ==
  /\ impl = "utils" /\ pc[k] = "fin_marker"
  /\ IF ok
     THEN svc' = [svc EXCEPT ![k] = WithoutFinalizer(@)] /\ Done(k)
     ELSE UNCHANGED svc /\ Fail(k, "error", "finalizer")
  /\ UNCHANGED <<storeVars, buildVars, cmIPs, nginxConf, kaVips>>

\* ------------------------------------------------------------ the operator
\* the ports of the Services created: package utils allocates addresses only
\* and never reads the port, so one port stands for all of them there
ServicePorts == IF impl = "utils" THEN {80} ELSE Ports

Cluster ==
  \/ \E k \in Services, p \in ServicePorts : CreateService(k, p)
  \/ \E k \in Services : DeleteService(k)

PassIpam ==
  \E k \in Services, ok \in BOOLEAN :
    \/ Reconcile(k, ok)
    \/ HandleServiceAllocate(k, ok)
    \/ HandleServiceVRID(k, ok)
    \/ HandleServiceEndpoints(k, ok)
    \/ HandleServiceKeepalived(k, ok)
    \/ HandleServiceConfigure(k, ok)
    \/ HandleServiceStatus(k, ok)
    \/ HandleServiceRollback(k, ok)
    \/ HandleServiceDeletionRelease(k, ok)
    \/ HandleServiceDeletionRemove(k, ok)
    \/ HandleServiceDeletionKeepalived(k, ok)
    \/ RemoveFinalizer(k, ok)

PassUtils ==
  \E k \in Services, ok \in BOOLEAN :
    \/ ReconcileUtils(k, ok)
    \/ ReconcileServiceCheck(k, ok)
    \/ ReconcileServiceAllocate(k, ok)
    \/ ReconcileServiceGet(k, ok)
    \/ ReconcileServiceVRIDs(k, ok)
    \/ ReconcileServiceKeepalived(k, ok)
    \/ ReconcileServiceNGINX(k, ok)
    \/ ReconcileServiceNoEndpoints(k)
    \/ ReconcileServiceStatus(k, ok)
    \/ FinalizeServiceRemove(k, ok)
    \/ FinalizeServiceRelease(k, ok)
    \/ FinalizeServiceVRIDs(k, ok)
    \/ FinalizeServiceKeepalived(k, ok)
    \/ RemoveFinalizerUtils(k, ok)

DoReturn == \E k \in Services : Return(k)

\* the controller over package ipam on a fresh cluster
NextIpam ==
  \/ Cluster
  \/ PassIpam
  \/ DoReturn

SpecIpam == Init /\ [][NextIpam]_vars

\* the same controller as it is built: SetupWithManager sets no
\* MaxConcurrentReconciles, so one worker runs one pass at a time
OneWorker == Cardinality({k \in Services : pc'[k] # "idle"}) <= 1

NextIpamOneWorker ==
  \/ Cluster
  \/ PassIpam /\ OneWorker
  \/ DoReturn

SpecIpamOneWorker == Init /\ [][NextIpamOneWorker]_vars

\* the controller over package utils on a fresh cluster
InitUtils ==
  /\ ipPool \in Pools
  /\ allocations = EmptyMap
  /\ ipPortUsage = EmptyMap
  /\ cmAlloc = NotFound
  /\ last = NoCall
  /\ saveFailures = 0
  /\ impl = "utils"
  /\ ReconIdle
  /\ vridVersion = "startup"
  /\ VRIDIdle
  /\ CallIdle
  /\ PoolIdle
  /\ GroupsIdle
  /\ KindsIdle

NextUtils ==
  \/ Cluster
  \/ PassUtils
  \/ DoReturn

SpecUtils == InitUtils /\ [][NextUtils]_vars

\* the type of a Service is changed, to or away from LoadBalancer
UpdateServiceType(k) ==
  /\ svc[k].present /\ ~svc[k].deleting
  /\ \E t \in Kinds \ {kind[k]} : kind' = [kind EXCEPT ![k] = t]
  /\ UNCHANGED <<operatorRest, vridVars>>

\* the controller over package utils, Services of either type, on a pool with
\* one address for every Service
InitKinds ==
  /\ ipPool \in Pools
  /\ Len(ipPool) = Cardinality(Services)
  /\ Cardinality(Range(ipPool)) = Cardinality(Services)
  /\ allocations = EmptyMap
  /\ ipPortUsage = EmptyMap
  /\ cmAlloc = NotFound
  /\ last = NoCall
  /\ saveFailures = 0
  /\ impl = "utils"
  /\ ReconIdle
  /\ vridVersion = "startup"
  /\ VRIDIdle
  /\ CallIdle
  /\ PoolIdle
  /\ GroupsIdle
  /\ kind \in [Services -> Kinds]

NextKinds ==
  \/ Cluster
  \/ \E k \in Services : UpdateServiceType(k)
  \/ PassUtils
  \/ DoReturn

SpecKinds == InitKinds /\ [][NextKinds]_vars

\* the operator process shuts down or is killed: every pass in flight ends
\* where it is, its locals are lost; ConfigMaps, Services and the files on the
\* NGINX server stay as they are
Shutdown ==
  /\ impl = "utils" /\ Running # {}
  /\ pc' = [k \in Services |-> "idle"]
  /\ loc' = [k \in Services |-> NoLocals]
  /\ UNCHANGED <<storeVars, buildVars, cmIPs, svc, nginxConf, kaVips>>

NextUtilsShutdown ==
  \/ Cluster
  \/ PassUtils
  \/ DoReturn
  \/ Shutdown

SpecUtilsShutdown == InitUtils /\ [][NextUtilsShutdown]_vars

\* a call to the API server or to the NGINX server fails in this step
TransientErrors == {"get", "api", "vrid", "keepalived", "nginx", "noendpoints", "status",
                    "remove", "finalizer"}
TransientFailure ==
  \E k \in Services :
    pc[k] # "return" /\ pc'[k] = "return" /\ loc'[k].err \in TransientErrors

\* any step of the worker that serves Service k: the start of a pass (an
\* event, or the requeue of a pass that returned an error), a call, the return
StepUtils(k) ==
  \E ok \in BOOLEAN :
    \/ ReconcileUtils(k, ok)
    \/ ReconcileServiceCheck(k, ok)
    \/ ReconcileServiceAllocate(k, ok)
    \/ ReconcileServiceGet(k, ok)
    \/ ReconcileServiceVRIDs(k, ok)
    \/ ReconcileServiceKeepalived(k, ok)
    \/ ReconcileServiceNGINX(k, ok)
    \/ ReconcileServiceNoEndpoints(k)
    \/ ReconcileServiceStatus(k, ok)
    \/ FinalizeServiceRemove(k, ok)
    \/ FinalizeServiceRelease(k, ok)
    \/ FinalizeServiceVRIDs(k, ok)
    \/ FinalizeServiceKeepalived(k, ok)
    \/ RemoveFinalizerUtils(k, ok)
    \/ Return(k)

\* the controller under fair scheduling: the pool holds just one address for
\* every Service (an address lost to a failed pass would leave one of them
\* without), the worker of every Service keeps taking steps, and from some
\* point on the API server and the NGINX server answer every call
InitUtilsFair ==
  /\ InitUtils
  /\ Len(ipPool) = Cardinality(Services)
  /\ Cardinality(Range(ipPool)) = Cardinality(Services)

SpecUtilsFair ==
  /\ InitUtilsFair /\ [][NextUtils]_vars
  /\ \A k \in Services : WF_vars(StepUtils(k))
  /\ <>[][~TransientFailure]_vars

\* the same fair scheduling with Services of either type
SpecKindsFair ==
  /\ InitKinds /\ [][NextKinds]_vars
  /\ \A k \in Services : WF_vars(StepUtils(k))
  /\ <>[][~TransientFailure]_vars

\* either store: package ipam under any sequence of calls, or package utils
\* under its controller
InitStores == Init \/ InitUtils

NextStores ==
  \/ impl = "ipam" /\ DoAllocate
  \/ impl = "ipam" /\ DoRelease
  \/ impl = "ipam" /\ Restart
  \/ impl = "utils" /\ Cluster
  \/ impl = "utils" /\ PassUtils
  \/ impl = "utils" /\ DoReturn

SpecStores == InitStores /\ [][NextStores]_vars

\* ------------------------------------- AllocateIP / ReleaseIP, call by call
otherThanCalls == <<storeVars, impl, vridVars, poolVars, groupVars, kindVars, svc, pc, loc, nginxConf, kaVips>>

\* a worker enters utils.AllocateIP or utils.ReleaseIP for a Service
EnterCall(w, op, key) ==
  /\ impl = "utils" /\ call[w].pc = "idle"
  /\ call' = [call EXCEPT ![w] = [NoCallLocals EXCEPT !.pc = "lock", !.op = op, !.key = key]]
  /\ UNCHANGED <<otherThanCalls, cmIPs, mutex>>

\* a Lock that never waits
MutexFreeAlways == TRUE

\* sync.Mutex: Lock returns when no goroutine holds the mutex
MutexFree == mutex = 0

\* ipAllocationMutex.Lock()
Lock(w) ==
  /\ call[w].pc = "lock" /\ MutexFree
  /\ mutex' = w
  /\ call' = [call EXCEPT ![w].pc = "load"]
  /\ UNCHANGED <<otherThanCalls, cmIPs>>

\* LoadIPPool and LoadAllocatedIPs: the worker's copy of the map
Load(w, ok) ==
  /\ call[w].pc = "load"
  /\ call' = [call EXCEPT ![w] =
       IF ok THEN [@ EXCEPT !.pc = "save", !.cm = cmIPs]
       ELSE [@ EXCEPT !.pc = "unlock",
                      !.res = [NoCall EXCEPT !.op = call[w].op, !.key = call[w].key,
                                             !.err = "api"]]]
  /\ UNCHANGED <<otherThanCalls, cmIPs, mutex>>

\* the rest of the call on the worker's copy: select or find the address,
\* SaveAllocatedIPs; nothing is written when the call returns an error
Save(w, ok) ==
  /\ call[w].pc = "save"
  /\ \E ip \in IF AddressesOf(call[w].cm, call[w].key) = {} THEN {0}
                ELSE AddressesOf(call[w].cm, call[w].key) :
       LET r == IF call[w].op = "allocate"
                THEN AllocateIP(call[w].cm, ipPool, call[w].key, ok)
                ELSE ReleaseIP(call[w].cm, call[w].key, ip, ok)
       IN /\ cmIPs' = IF r.res.err = "none" THEN r.cm ELSE cmIPs
          /\ call' = [call EXCEPT ![w].pc = "unlock", ![w].res = r.res]
  /\ UNCHANGED <<otherThanCalls, mutex>>

\* the deferred ipAllocationMutex.Unlock() as the call returns
Unlock(w) ==
  /\ call[w].pc = "unlock"
  /\ mutex' = IF mutex = w THEN 0 ELSE mutex
  /\ call' = [call EXCEPT ![w] = NoCallLocals]
  /\ UNCHANGED <<otherThanCalls, cmIPs>>

NextCalls ==
  \/ \E w \in Workers, op \in {"allocate", "release"}, key \in Services :
       EnterCall(w, op, key)
  \/ \E w \in Workers : Lock(w)
  \/ \E w \in Workers, ok \in BOOLEAN : Load(w, ok)
  \/ \E w \in Workers, ok \in BOOLEAN : Save(w, ok)
  \/ \E w \in Workers : Unlock(w)

SpecCalls == InitUtils /\ [][NextCalls]_vars

\* ------------------------- package ipam, call by call: the allocationMutex
\* the two texts of package ipam: "ipam" is the one whose saveAllocations
\* takes no lock, "ipam.go" the one whose saveAllocations locks
\* allocationMutex itself
IpamBuilds == {"ipam", "ipam.go"}

otherThanStoreCalls ==
  <<saveFailures, ipPool, last, impl, vridVars, poolVars, groupVars, kindVars,
    cmIPs, svc, pc, loc, nginxConf, kaVips>>

\* a caller enters ipam.AllocateIPAndPorts or ipam.ReleaseAllocation
EnterIpamCall(w, op, key) ==
  /\ impl \in IpamBuilds /\ call[w].pc = "idle"
  /\ call' = [call EXCEPT ![w] = [NoCallLocals EXCEPT !.pc = "lock", !.op = op, !.key = key]]
  /\ UNCHANGED <<otherThanStoreCalls, allocations, ipPortUsage, cmAlloc, mutex>>

\* allocationMutex.Lock() at the top of the call
LockAllocations(w) ==
  /\ impl \in IpamBuilds /\ call[w].pc = "lock" /\ MutexFree
  /\ mutex' = w
  /\ call' = [call EXCEPT ![w].pc = "body"]
  /\ UNCHANGED <<otherThanStoreCalls, allocations, ipPortUsage, cmAlloc>>

\* the body of the call up to saveAllocations: the maps are changed in
\* memory; a call that changes nothing returns without saving
CallBody(w) ==
  /\ impl \in IpamBuilds /\ call[w].pc = "body"
  /\ LET r == IF call[w].op = "allocate"
              THEN AllocateIPAndPorts(Store, call[w].key, {80}, TRUE)
              ELSE ReleaseAllocation(Store, call[w].key, TRUE)
     IN /\ allocations' = r.st.allocations
        /\ ipPortUsage' = r.st.ipPortUsage
        /\ call' = [call EXCEPT ![w].pc = IF r.res.new THEN "save" ELSE "unlock",
                                ![w].res = r.res]
  /\ UNCHANGED <<otherThanStoreCalls, cmAlloc, mutex>>

\* saveAllocations called by the body, which holds allocationMutex: in
\* "ipam.go" it starts with allocationMutex.Lock() and returns from it only
\* when no goroutine holds the mutex
SaveAllocationsCall(w, ok) ==
  /\ impl \in IpamBuilds /\ call[w].pc = "save"
  /\ impl = "ipam.go" => MutexFree
  /\ cmAlloc' = saveAllocations(allocations, cmAlloc, ok)
  /\ call' = [call EXCEPT ![w].pc = "unlock",
                          ![w].res.err = IF ok THEN "none" ELSE "save"]
  /\ UNCHANGED <<otherThanStoreCalls, allocations, ipPortUsage, mutex>>

\* the deferred allocationMutex.Unlock() as the call returns
UnlockAllocations(w) ==
  /\ impl \in IpamBuilds /\ call[w].pc = "unlock"
  /\ mutex' = 0
  /\ call' = [call EXCEPT ![w] = NoCallLocals]
  /\ UNCHANGED <<otherThanStoreCalls, allocations, ipPortUsage, cmAlloc>>

InitLocks ==
  /\ ipPool \in Pools
  /\ allocations = EmptyMap
  /\ ipPortUsage = EmptyMap
  /\ cmAlloc = NotFound
  /\ last = NoCall
  /\ saveFailures = 0
  /\ impl \in IpamBuilds
  /\ ReconIdle
  /\ vridVersion = "startup"
  /\ VRIDIdle
  /\ CallIdle
  /\ PoolIdle
  /\ GroupsIdle
  /\ KindsIdle

NextLocks ==
  \/ \E w \in Workers, op \in {"allocate", "release"}, key \in Services :
       EnterIpamCall(w, op, key)
  \/ \E w \in Workers : LockAllocations(w)
  \/ \E w \in Workers : CallBody(w)
  \/ \E w \in Workers, ok \in BOOLEAN : SaveAllocationsCall(w, ok)
  \/ \E w \in Workers : UnlockAllocations(w)

SpecLocks == InitLocks /\ [][NextLocks]_vars

\* ------------------------------------------------------------ the IP pool
\* the lines a pool text is made of
MaxLines == 2

\* a byte of an address (uint8 in the source), and the dotted addresses
Bytes == {0, 1}
ByteCount == Cardinality(Bytes)
NoIP == <<>>

\* net.ParseIP: the bytes of a dotted address, nil for any other text
ParseIP(str) ==
  CASE str = "0.0" -> <<0, 0>>
    [] str = "0.1" -> <<0, 1>>
    [] str = "1.0" -> <<1, 0>>
    [] str = "1.1" -> <<1, 1>>
    [] OTHER -> NoIP

\* net.IP.String
IPString(ip) ==
  CASE ip = <<0, 0>> -> "0.0"
    [] ip = <<0, 1>> -> "0.1"
    [] ip = <<1, 0>> -> "1.0"
    [] ip = <<1, 1>> -> "1.1"
    [] OTHER -> "<nil>"

\* a trimmed line as strings.Split(line, "-") gives it: <<"">> is a blank
\* line, a first part "#" a line that begins with '#'
AddressTexts == {"0.0", "0.1", "1.0", "1.1", "x"}
Lines ==
  {<<"">>, <<"#">>, <<"#", "0.1">>, <<"0.0", "">>, <<"0.0", "0.1", "1.0">>}
  \cup {<<t>> : t \in AddressTexts}
  \cup {<<t, u>> : t, u \in AddressTexts}
PoolTexts == UNION {[1..n -> Lines] : n \in 1..MaxLines}

\* nextIP: add one to the last byte, carrying into the bytes before it
RECURSIVE nextIPFrom(_, _)
nextIPFrom(ip, j) ==
  IF j = 0 THEN ip
  ELSE LET b == (ip[j] + 1) % ByteCount
       IN IF b > 0 THEN [ip EXCEPT ![j] = b]
          ELSE nextIPFrom([ip EXCEPT ![j] = b], j - 1)

nextIP(ip) == nextIPFrom(ip, Len(ip))

\* generateIPRange of package ipam: from startIP until the address equals endIP
RECURSIVE generateIPRangeFrom(_, _, _)
generateIPRangeFrom(ip, endIP, ips) ==
  IF ip = endIP THEN Append(ips, IPString(endIP))
  ELSE generateIPRangeFrom(nextIP(ip), endIP, Append(ips, IPString(ip)))

generateIPRange(startIP, endIP) == generateIPRangeFrom(startIP, endIP, <<>>)

\* expandIPRange of package ipam
expandIPRange(ipRange) ==
  IF Len(ipRange) # 2 THEN [err |-> "invalid", ips |-> <<>>]
  ELSE IF ParseIP(ipRange[1]) = NoIP \/ ParseIP(ipRange[2]) = NoIP
  THEN [err |-> "invalid", ips |-> <<>>]
  ELSE [err |-> "none", ips |-> generateIPRange(ParseIP(ipRange[1]), ParseIP(ipRange[2]))]

\* a parseIPPool that passes over the lines it cannot read
RECURSIVE parseIPPoolLenientFrom(_, _, _)
parseIPPoolLenientFrom(lines, i, ips) ==
  IF i > Len(lines) THEN [err |-> "none", ips |-> ips]
  ELSE LET ipRange == lines[i]
       IN IF ipRange = <<"">> \/ ipRange[1] = "#" \/ expandIPRange(ipRange).err # "none"
          THEN parseIPPoolLenientFrom(lines, i + 1, ips)
          ELSE parseIPPoolLenientFrom(lines, i + 1, ips \o expandIPRange(ipRange).ips)

parseIPPoolLenient(data) == parseIPPoolLenientFrom(data, 1, <<>>)

\* parseIPPool of package ipam
RECURSIVE parseIPPoolFrom(_, _, _)
parseIPPoolFrom(lines, i, ips) ==
  IF i > Len(lines) THEN [err |-> "none", ips |-> ips]
  ELSE LET ipRange == lines[i]
       IN IF ipRange = <<"">> \/ ipRange[1] = "#"
          THEN parseIPPoolFrom(lines, i + 1, ips)
          ELSE IF Len(ipRange) > 1
          THEN IF expandIPRange(ipRange).err # "none"
               THEN [err |-> expandIPRange(ipRange).err, ips |-> <<>>]
               ELSE parseIPPoolFrom(lines, i + 1, ips \o expandIPRange(ipRange).ips)
          ELSE IF ParseIP(ipRange[1]) = NoIP
               THEN [err |-> "invalid", ips |-> <<>>]
               ELSE parseIPPoolFrom(lines, i + 1, Append(ips, ipRange[1]))

parseIPPool(data) == parseIPPoolFrom(data, 1, <<>>)

\* loadIPPool and Init of package ipam: Init returns the error of loadIPPool
InitIpam(data) ==
  LET r == parseIPPool(data)
  IN [by |-> "ipam", err |-> r.err, ips |-> r.ips, init |-> r.err = "none"]

\* bytesCompare and ipAfter of package utils
RECURSIVE bytesCompareFrom(_, _, _)
bytesCompareFrom(a, b, i) ==
  IF i > Len(a) \/ i > Len(b) THEN Len(a) - Len(b)
  ELSE IF a[i] # b[i] THEN a[i] - b[i]
  ELSE bytesCompareFrom(a, b, i + 1)

bytesCompare(a, b) == bytesCompareFrom(a, b, 1)
ipAfter(ip1, ip2) == bytesCompare(ip1, ip2) > 0

\* the loop of parseIPRange of package utils: while ip is not after endIP.
\* It never ends when endIP is the highest address: the loop is cut once it
\* has been through every address, and the call counts as hanging
RECURSIVE parseIPRangeFrom(_, _, _)
parseIPRangeFrom(ip, endIP, ips) ==
  IF Len(ips) > ByteCount * ByteCount THEN [err |-> "hang", ips |-> <<>>]
  ELSE IF ipAfter(ip, endIP) THEN [err |-> "none", ips |-> ips]
  ELSE parseIPRangeFrom(nextIP(ip), endIP, Append(ips, IPString(ip)))

parseIPRange(rangeStr) ==
  IF Len(rangeStr) # 2 THEN [err |-> "invalid", ips |-> <<>>]
  ELSE IF ParseIP(rangeStr[1]) = NoIP \/ ParseIP(rangeStr[2]) = NoIP
  THEN [err |-> "invalid", ips |-> <<>>]
  ELSE parseIPRangeFrom(ParseIP(rangeStr[1]), ParseIP(rangeStr[2]), <<>>)

\* LoadIPPool of package utils
RECURSIVE LoadIPPoolFrom(_, _, _)
LoadIPPoolFrom(lines, i, ipPoolSoFar) ==
  IF i > Len(lines) THEN [err |-> "none", ips |-> ipPoolSoFar]
  ELSE LET line == lines[i]
       IN IF line = <<"">> \/ line[1] = "#"
          THEN LoadIPPoolFrom(lines, i + 1, ipPoolSoFar)
          ELSE IF Len(line) > 1
          THEN IF parseIPRange(line).err # "none"
               THEN [err |-> parseIPRange(line).err, ips |-> <<>>]
               ELSE LoadIPPoolFrom(lines, i + 1, ipPoolSoFar \o parseIPRange(line).ips)
          ELSE IF ParseIP(line[1]) = NoIP
               THEN [err |-> "invalid", ips |-> <<>>]
               ELSE LoadIPPoolFrom(lines, i + 1, Append(ipPoolSoFar, IPString(ParseIP(line[1]))))

LoadIPPool(data) ==
  LET r == LoadIPPoolFrom(data, 1, <<>>)
  IN [by |-> "utils", err |-> r.err, ips |-> r.ips, init |-> FALSE]

otherThanPool == <<storeVars, impl, vridVars, callVars, groupVars, kindVars, cmIPs, svc, pc, loc, nginxConf, kaVips>>

\* ipam.Init is run on the pool text
LoadByIpam ==
  /\ loaded.by = "none"
  /\ loaded' = InitIpam(poolData)
  /\ UNCHANGED <<otherThanPool, poolData>>

\* utils.LoadIPPool is run on the pool text
LoadByUtils ==
  /\ loaded.by = "none"
  /\ loaded' = LoadIPPool(poolData)
  /\ UNCHANGED <<otherThanPool, poolData>>

InitPool ==
  /\ ipPool = <<1>>
  /\ allocations = EmptyMap
  /\ ipPortUsage = EmptyMap
  /\ cmAlloc = NotFound
  /\ last = NoCall
  /\ saveFailures = 0
  /\ impl = "ipam"
  /\ ReconIdle
  /\ vridVersion = "startup"
  /\ VRIDIdle
  /\ CallIdle
  /\ poolData \in PoolTexts
  /\ loaded = NotLoaded
  /\ GroupsIdle
  /\ KindsIdle

NextPool ==
  \/ LoadByIpam
  \/ LoadByUtils

SpecPool == InitPool /\ [][NextPool]_vars

\* ---------------------------------------------------------- Keepalived groups
MaxVIPs == 5

\* the last byte of each address of the fleet; as decimal text, which is what
\* the code sorts, 10 comes before 8
LastBytes == {7 + i : i \in 1..MaxVIPs}
Decimal(n) == IF n < 10 THEN <<n>> ELSE <<n \div 10, n % 10>>

\* Go's < on the two strings
stringLess(a, b) ==
  LET x == Decimal(a)
      y == Decimal(b)
  IN \E i \in 1..Len(y) :
       /\ \A j \in 1..(i - 1) : j <= Len(x) /\ x[j] = y[j]
       /\ i > Len(x) \/ x[i] < y[i]

\* the orders in which "for ip := range allocatedIPs" can yield the fleet
MapOrders ==
  {q \in UNION {[1..n -> LastBytes] : n \in 0..MaxVIPs} :
     \A i, j \in DOMAIN q : i # j => q[i] # q[j]}

RECURSIVE insertSorted(_, _)
insertSorted(sorted, ip) ==
  IF sorted = <<>> THEN <<ip>>
  ELSE IF stringLess(ip, Head(sorted)) THEN <<ip>> \o sorted
  ELSE <<Head(sorted)>> \o insertSorted(Tail(sorted), ip)

\* a rendering that takes the addresses in the order of the map iteration
sortStringsNone(ips) == ips

\* sort.Strings(ips)
RECURSIVE sortStrings(_)
sortStrings(ips) ==
  IF ips = <<>> THEN <<>> ELSE insertSorted(sortStrings(Tail(ips)), Head(ips))

\* splitVIPs(vipList) of package nginx: the first half, rounded up, and the rest
splitVIPs(vipList) ==
  LET half == (Len(vipList) + 1) \div 2
  IN [group1 |-> SubSeq(vipList, 1, half),
      group2 |-> SubSeq(vipList, half + 1, Len(vipList))]

\* distributeIPsIntoGroups(ips) of package utils: Go indices 0, 2, ... and 1, 3, ...
distributeIPsIntoGroups(ips) ==
  [group1 |-> [i \in 1..((Len(ips) + 1) \div 2) |-> ips[2 * i - 1]],
   group2 |-> [i \in 1..(Len(ips) \div 2) |-> ips[2 * i]]]

otherThanGroups == <<storeVars, impl, vridVars, callVars, poolVars, kindVars, cmIPs, svc, pc, loc,
                     nginxConf, kaVips>>

\* NginxServer.updateKeepalivedConfigs of package nginx, up to the rendering
updateKeepalivedConfigs ==
  /\ LET g == splitVIPs(sortStrings(vipOrder))
     IN vipGroups' = [by |-> "nginx", group1 |-> g.group1, group2 |-> g.group2]
  /\ UNCHANGED <<otherThanGroups, vipOrder, rendered>>

\* ConfigureKeepalived of package utils, up to the rendering
ConfigureKeepalived ==
  /\ LET g == distributeIPsIntoGroups(sortStrings(vipOrder))
     IN vipGroups' = [by |-> "utils", group1 |-> g.group1, group2 |-> g.group2]
  /\ UNCHANGED <<otherThanGroups, vipOrder, rendered>>

InitKeepalived ==
  /\ ipPool = <<1>>
  /\ allocations = EmptyMap
  /\ ipPortUsage = EmptyMap
  /\ cmAlloc = NotFound
  /\ last = NoCall
  /\ saveFailures = 0
  /\ impl = "ipam"
  /\ ReconIdle
  /\ vridVersion = "startup"
  /\ VRIDIdle
  /\ CallIdle
  /\ PoolIdle
  /\ vipOrder \in MapOrders
  /\ vipGroups = NoGroups
  /\ RenderIdle
  /\ KindsIdle

NextKeepalived ==
  \/ updateKeepalivedConfigs
  \/ ConfigureKeepalived

SpecKeepalived == InitKeepalived /\ [][NextKeepalived]_vars

\* ------------------------------------------------------------ VRID ledger
\* parseAllocatedVRIDs / getAllocatedVRIDs: every identifier of every entry
parseAllocatedVRIDs(vridData) ==
  UNION {{vridData[c][1], vridData[c][2]} : c \in DOMAIN vridData}

\* a search that looks at the first identifier of each pair only
RECURSIVE findUnusedVRIDPairFirstOnly(_, _)
findUnusedVRIDPairFirstOnly(allocatedVRIDs, i) ==
  IF i > MaxVRID - 1 THEN NoPair
  ELSE IF i \notin allocatedVRIDs THEN <<i, i + 1>>
  ELSE findUnusedVRIDPairFirstOnly(allocatedVRIDs, i + 2)

RECURSIVE findUnusedVRIDPairFrom(_, _)
findUnusedVRIDPairFrom(allocatedVRIDs, i) ==
  IF i > MaxVRID - 1 THEN NoPair
  ELSE IF i \notin allocatedVRIDs /\ (i + 1) \notin allocatedVRIDs THEN <<i, i + 1>>
  ELSE findUnusedVRIDPairFrom(allocatedVRIDs, i + 2)

findUnusedVRIDPair(allocatedVRIDs) == findUnusedVRIDPairFrom(allocatedVRIDs, 1)

\* FetchVRIDAllocationsFromNGINX: an absent file reads as no entries
FetchVRIDAllocationsFromNGINX == vridFile

\* updateConfigMapWithClusterVRID: create with the own entry, or set it
updateConfigMapWithClusterVRID(cm, clusterName, vrid) ==
  IF ~cm.exists THEN [exists |-> TRUE, data |-> Put(EmptyMap, clusterName, vrid)]
  ELSE [exists |-> TRUE, data |-> Put(cm.data, clusterName, vrid)]

VGoto(c, p, l) ==
  /\ vpc' = [vpc EXCEPT ![c] = p]
  /\ vloc' = [vloc EXCEPT ![c] = l]

\* main of the startup build: GetOrAllocateVRIDsOnStartup up to its first write
GetOrAllocateVRIDsOnStartup(c, ok) ==
  /\ vridVersion = "startup" /\ vpc[c] = "down"
  /\ LET vridAllocationsData == FetchVRIDAllocationsFromNGINX
         vrids == findUnusedVRIDPair(parseAllocatedVRIDs(vridAllocationsData))
     IN IF ~ok THEN VGoto(c, "down", VRIDError("fetch"))
        ELSE IF vridAllocationsData = EmptyMap
          THEN VGoto(c, "file", [NoVRIDLocals EXCEPT !.pair = <<1, 2>>,
                                   !.data = Put(EmptyMap, c, <<1, 2>>)])
        ELSE IF c \notin DOMAIN vridAllocationsData
          THEN IF vrids = NoPair THEN VGoto(c, "down", VRIDError("novrids"))
               ELSE VGoto(c, "file", [NoVRIDLocals EXCEPT !.pair = vrids,
                                        !.data = Put(vridAllocationsData, c, vrids)])
        ELSE VGoto(c, "cm", [NoVRIDLocals EXCEPT !.pair = vridAllocationsData[c],
                               !.data = vridAllocationsData])
  /\ UNCHANGED <<operatorVars, vridVersion, vridFile, vridCM>>

\* a file write that carries the entry of the own cluster only
StartupWriteFileOwnEntry(c, ok) ==
  /\ vpc[c] = "file"
  /\ vridFile' \in Published(ok, vridFile, Put(EmptyMap, c, vloc[c].pair))
  /\ IF ok THEN UNCHANGED vloc /\ vpc' = [vpc EXCEPT ![c] = "cm"]
     ELSE VGoto(c, "down", VRIDError("file"))
  /\ UNCHANGED <<operatorVars, vridVersion, vridCM>>

\* CopyFileToNGINXServer / UpdateVRIDAllocationsFile: the whole file is replaced
StartupWriteFile(c, ok) ==
  /\ vpc[c] = "file"
  /\ vridFile' \in Published(ok, vridFile, vloc[c].data)
  /\ IF ok THEN UNCHANGED vloc /\ vpc' = [vpc EXCEPT ![c] = "cm"]
     ELSE VGoto(c, "down", VRIDError("file"))
  /\ UNCHANGED <<operatorVars, vridVersion, vridCM>>

StartupWriteConfigMap(c, ok) ==
  /\ vpc[c] = "cm"
  /\ IF ok
     THEN /\ vridCM' = [vridCM EXCEPT ![c] =
                          updateConfigMapWithClusterVRID(@, c, vloc[c].pair)]
          /\ VGoto(c, "up", NoVRIDLocals)
     ELSE /\ UNCHANGED vridCM
          /\ VGoto(c, "down", VRIDError("cm"))
  /\ UNCHANGED <<operatorVars, vridVersion, vridFile>>

\* a lookup that also rewrites the file on the NGINX server from the ConfigMap
GetOrAllocateVRIDsSyncsFile(c, ok) ==
  /\ vridVersion = "startup" /\ vpc[c] = "up"
  /\ vloc' = [vloc EXCEPT ![c] =
                IF ~ok \/ ~vridCM[c].exists THEN VRIDError("get")
                ELSE IF c \notin DOMAIN vridCM[c].data THEN VRIDError("unallocated")
                ELSE [NoVRIDLocals EXCEPT !.vrids = vridCM[c].data[c]]]
  /\ vridFile' = IF ok /\ vridCM[c].exists THEN vridCM[c].data ELSE vridFile
  /\ UNCHANGED <<operatorVars, vridVersion, vridCM, vpc>>

\* GetOrAllocateVRIDs of the startup build: a read of the ConfigMap
GetOrAllocateVRIDs(c, ok) ==
  /\ vridVersion = "startup" /\ vpc[c] = "up"
  /\ vloc' = [vloc EXCEPT ![c] =
                IF ~ok \/ ~vridCM[c].exists THEN VRIDError("get")
                ELSE IF c \notin DOMAIN vridCM[c].data THEN VRIDError("unallocated")
                ELSE [NoVRIDLocals EXCEPT !.vrids = vridCM[c].data[c]]]
  /\ UNCHANGED <<operatorVars, vridVersion, vridFile, vridCM, vpc>>

\* the manager of the lazy build starts without touching the ledgers
StartLazy(c) ==
  /\ vridVersion = "lazy" /\ vpc[c] = "down"
  /\ VGoto(c, "up", NoVRIDLocals)
  /\ UNCHANGED <<operatorVars, vridVersion, vridFile, vridCM>>

\* GetOrAllocateVRIDs of the lazy build: allocate from the own ConfigMap, save
\* it, then replace the file on the NGINX server by the ConfigMap's entries
GetOrAllocateVRIDsLazy(c, getOk, saveOk, fileOk) ==
  /\ vridVersion = "lazy" /\ vpc[c] = "up"
  /\ LET cm == vridCM[c]
         vrids == findUnusedVRIDPair(parseAllocatedVRIDs(cm.data))
         cm2 == [exists |-> TRUE, data |-> Put(cm.data, c, vrids)]
     IN IF ~getOk
          THEN /\ vloc' = [vloc EXCEPT ![c] = VRIDError("get")]
               /\ UNCHANGED <<vridCM, vridFile>>
        ELSE IF cm.exists /\ c \in DOMAIN cm.data
          THEN /\ vloc' = [vloc EXCEPT ![c] = [NoVRIDLocals EXCEPT !.vrids = cm.data[c]]]
               /\ UNCHANGED <<vridCM, vridFile>>
        ELSE IF vrids = NoPair \/ ~saveOk
          THEN /\ vloc' = [vloc EXCEPT ![c] =
                             VRIDError(IF vrids = NoPair THEN "novrids" ELSE "save")]
               /\ UNCHANGED <<vridCM, vridFile>>
        ELSE /\ vridCM' = [vridCM EXCEPT ![c] = cm2]
             /\ vridFile' \in Published(fileOk, vridFile, cm2.data)
             /\ vloc' = [vloc EXCEPT ![c] = IF fileOk THEN [NoVRIDLocals EXCEPT !.vrids = vrids]
                                            ELSE VRIDError("file")]
  /\ UNCHANGED <<operatorVars, vridVersion, vpc>>

\* the operator process of a cluster exits or is killed
Stop(c) ==
  /\ vpc[c] # "down"
  /\ VGoto(c, "down", NoVRIDLocals)
  /\ UNCHANGED <<operatorVars, vridVersion, vridFile, vridCM>>

InitVRID ==
  /\ ipPool \in {<<1>>}
  /\ allocations = EmptyMap
  /\ ipPortUsage = EmptyMap
  /\ cmAlloc = NotFound
  /\ last = NoCall
  /\ saveFailures = 0
  /\ impl = "utils"
  /\ ReconIdle
  /\ vridVersion \in {"lazy", "startup"}
  /\ VRIDIdle
  /\ CallIdle
  /\ PoolIdle
  /\ GroupsIdle
  /\ KindsIdle

NextVRID ==
  \/ \E c \in Clusters, ok \in BOOLEAN : GetOrAllocateVRIDsOnStartup(c, ok)
  \/ \E c \in Clusters, ok \in BOOLEAN : StartupWriteFile(c, ok)
  \/ \E c \in Clusters, ok \in BOOLEAN : StartupWriteConfigMap(c, ok)
  \/ \E c \in Clusters, ok \in BOOLEAN : GetOrAllocateVRIDs(c, ok)
  \/ \E c \in Clusters : StartLazy(c)
  \/ \E c \in Clusters, getOk, saveOk, fileOk \in BOOLEAN :
       GetOrAllocateVRIDsLazy(c, getOk, saveOk, fileOk)
  \/ \E c \in Clusters : Stop(c)

SpecVRID == InitVRID /\ [][NextVRID]_vars

\* the file as the operators may find it on the NGINX server: absent, or with
\* one entry that none of them wrote
ForeignFiles ==
  {EmptyMap} \cup {Put(EmptyMap, "other", <<a, b>>) : a, b \in 1..MaxVRID}

InitLedger ==
  /\ ipPool \in {<<1>>}
  /\ allocations = EmptyMap
  /\ ipPortUsage = EmptyMap
  /\ cmAlloc = NotFound
  /\ last = NoCall
  /\ saveFailures = 0
  /\ impl = "utils"
  /\ ReconIdle
  /\ vridVersion \in {"lazy", "startup"}
  /\ vridFile \in ForeignFiles
  /\ vridCM = [c \in Clusters |-> [exists |-> FALSE, data |-> EmptyMap]]
  /\ vpc = [c \in Clusters |-> "down"]
  /\ vloc = [c \in Clusters |-> NoVRIDLocals]
  /\ CallIdle
  /\ PoolIdle
  /\ GroupsIdle
  /\ KindsIdle

SpecLedger == InitLedger /\ [][NextVRID]_vars

\* ------------------------------------- the identifiers of a rendered file
\* VRID_allocations.conf as package nginx keeps it: the lines "vrid n"
VRIDLines ==
  {q \in UNION {[1..n -> 1..MaxVRID] : n \in 0..MaxVRID} :
     \A i, j \in DOMAIN q : i # j => q[i] # q[j]}

\* getUniqueVRID of package nginx: the lowest identifier on no line, appended
\* to the file; 0 and an error when every identifier is on a line
getUniqueVRID(lines) ==
  LET unused == {i \in 1..MaxVRID : i \notin Range(lines)}
  IN IF unused = {} THEN [vrid |-> 0, lines |-> lines]
     ELSE LET newVRID == CHOOSE i \in unused : \A j \in unused : i <= j
          IN [vrid |-> newVRID, lines |-> Append(lines, newVRID)]

\* generateKeepalivedConfig of package nginx: VirtualRouterID1 and
\* VirtualRouterID2 are the results of two calls of getUniqueVRID
generateKeepalivedConfig(lines) ==
  LET id1 == getUniqueVRID(lines)
      id2 == getUniqueVRID(id1.lines)
  IN IF id1.vrid = 0 THEN [ok |-> FALSE, pair |-> NoPair, lines |-> id1.lines]
     ELSE IF id2.vrid = 0 THEN [ok |-> FALSE, pair |-> NoPair, lines |-> id2.lines]
     ELSE [ok |-> TRUE, pair |-> <<id1.vrid, id2.vrid>>, lines |-> id2.lines]

\* GenerateKeepalivedConfig of package utils: the identifiers are arguments
GenerateKeepalivedConfig(vrid1, vrid2) == <<vrid1, vrid2>>

otherThanRender ==
  <<storeVars, impl, cmIPs, svc, pc, loc, nginxConf, kaVips, callVars, poolVars, kindVars,
    vipOrder, vipGroups, vridVersion, vridCM, vpc, vloc>>

\* nginx.UpdateKeepalivedConfigs: the primary and the secondary file are
\* rendered by one call of generateKeepalivedConfig each, and written when
\* both calls succeeded
UpdateKeepalivedConfigs(c) ==
  /\ impl = "ipam"
  /\ LET primary == generateKeepalivedConfig(vridFile)
         secondary == generateKeepalivedConfig(primary.lines)
     IN /\ vridFile' = IF primary.ok THEN secondary.lines ELSE primary.lines
        /\ rendered' = IF primary.ok /\ secondary.ok
                       THEN [rendered EXCEPT ![c] = [by |-> "nginx", primary |-> primary.pair,
                                                     secondary |-> secondary.pair]]
                       ELSE rendered
  /\ UNCHANGED otherThanRender

\* reconcileService of the startup build: utils.GetOrAllocateVRIDs reads the
\* pair of the cluster from the ConfigMap, utils.ConfigureKeepalived renders
\* both files with it
ReconcileServiceConfigureKeepalived(c, ok) ==
  /\ impl = "utils" /\ vridVersion = "startup" /\ vpc[c] = "up"
  /\ rendered' = IF ok /\ vridCM[c].exists /\ c \in DOMAIN vridCM[c].data
                 THEN LET vrids == vridCM[c].data[c]
                      IN [rendered EXCEPT ![c] =
                            [by |-> "utils",
                             primary |-> GenerateKeepalivedConfig(vrids[1], vrids[2]),
                             secondary |-> GenerateKeepalivedConfig(vrids[1], vrids[2])]]
                 ELSE rendered
  /\ UNCHANGED <<otherThanRender, vridFile>>

\* either build, on the ledger file as it may be found
InitRender ==
  /\ ipPool \in {<<1>>}
  /\ allocations = EmptyMap
  /\ ipPortUsage = EmptyMap
  /\ cmAlloc = NotFound
  /\ last = NoCall
  /\ saveFailures = 0
  /\ impl \in {"ipam", "utils"}
  /\ ReconIdle
  /\ vridVersion \in {"lazy", "startup"}
  /\ impl = "ipam" => vridVersion = "startup"
  /\ vridFile \in IF impl = "ipam" THEN VRIDLines ELSE ForeignFiles
  /\ vridCM = [c \in Clusters |-> [exists |-> FALSE, data |-> EmptyMap]]
  /\ vpc = [c \in Clusters |-> "down"]
  /\ vloc = [c \in Clusters |-> NoVRIDLocals]
  /\ CallIdle
  /\ PoolIdle
  /\ GroupsIdle
  /\ KindsIdle

NextRender ==
  \/ impl = "utils" /\ NextVRID
  \/ \E c \in Clusters, ok \in BOOLEAN : ReconcileServiceConfigureKeepalived(c, ok)
  \/ \E c \in Clusters : UpdateKeepalivedConfigs(c)

SpecRender == InitRender /\ [][NextRender]_vars

\* ------------------------------------------------------------ properties
Conflict(usage, ip, ports) ==
  ip \in DOMAIN usage /\ \E p \in ports : p \in DOMAIN usage[ip]

Decoded(cm) == loadAllocationsMap(cm.data)

\* C1: any two distinct allocations on the same address have disjoint port
\* sets, whatever the pool (repeated addresses included) and whatever the
\* sequence of allocate and release calls.
PortDisjointness ==
  \A a, b \in DOMAIN allocations :
    (a # b /\ allocations[a].ip = allocations[b].ip)
      => allocations[a].ports \cap allocations[b].ports = {}

PortDisjointnessWitness ==
  /\ \E i, j \in DOMAIN ipPool : i # j /\ ipPool[i] = ipPool[j]
  /\ \E a, b \in DOMAIN allocations : a # b /\ allocations[a].ip = allocations[b].ip
  /\ last.op = "release"

\* C3: after every allocate or release call, successful or failed, the port
\* usage index is the index that loading the current allocation set builds.
IndexConsistency ==
  ipPortUsage = loadAllocationsUsage(allocationsToList(allocations))

IndexConsistencyWitness ==
  /\ last.op = "allocate" /\ last.err = "save"
  /\ \E a \in DOMAIN allocations : a # last.key /\ allocations[a].ip = last.ip

\* C4: an allocate call whose ConfigMap write fails leaves the allocation set
\* and the index as they were before the call, equal to the durable record.
AllocateSaveFailureRollsBack ==
  [][(last'.op = "allocate" /\ last'.err = "save")
       => /\ allocations' = allocations
          /\ ipPortUsage' = ipPortUsage
          /\ allocations' = Decoded(cmAlloc')]_vars

\* C6: allocate for an owner that already holds an allocation returns that
\* allocation and changes neither the allocation set, the index nor the
\* ConfigMap, whatever ports are requested.
AllocateIdempotent ==
  [][(last'.op = "allocate" /\ last'.key \in DOMAIN allocations)
       => /\ last'.err = "none"
          /\ last'.ip = allocations[last'.key].ip
          /\ allocations' = allocations
          /\ ipPortUsage' = ipPortUsage
          /\ cmAlloc' = cmAlloc]_vars

AllocateIdempotentWitness ==
  /\ last.op = "allocate" /\ last.err = "none" /\ ~last.new
  /\ last.key \in DOMAIN allocations
  /\ last.ports # allocations[last.key].ports
  /\ last.ip = allocations[last.key].ip

\* C7: a new allocation takes the first address in pool order on which none
\* of the requested ports is in use; owners with overlapping port sets hold
\* different addresses.
FirstFit ==
  /\ [][(last'.op = "allocate" /\ last'.new)
          => \E i \in DOMAIN ipPool :
               /\ ipPool[i] = last'.ip
               /\ ~Conflict(ipPortUsage, ipPool[i], last'.ports)
               /\ \A j \in 1..(i - 1) : Conflict(ipPortUsage, ipPool[j], last'.ports)
               /\ allocations'[last'.key] = [ip |-> ipPool[i], ports |-> last'.ports]]_vars
  /\ [](\A a, b \in DOMAIN allocations :
          (a # b /\ allocations[a].ports \cap allocations[b].ports # {})
             => allocations[a].ip # allocations[b].ip)

FirstFitWitness ==
  /\ last.op = "allocate" /\ last.new /\ last.err = "none"
  /\ \E a \in DOMAIN allocations :
       a # last.key /\ allocations[a].ip = last.ip
  /\ \E b \in DOMAIN allocations :
       Len(ipPool) >= 2 /\ allocations[b].ip = ipPool[2] /\ ipPool[2] # ipPool[1]

\* C8: when every pool address has a conflict with the requested ports,
\* allocate fails with "no available IPs" and the allocation set, the index
\* and the ConfigMap are unchanged; the owner holds no allocation afterwards.
ExhaustionNoPartialState ==
  [][(/\ last'.op = "allocate"
      /\ last'.key \notin DOMAIN allocations
      /\ \A i \in DOMAIN ipPool : Conflict(ipPortUsage, ipPool[i], last'.ports))
       => /\ last'.err = "nocapacity"
          /\ allocations' = allocations
          /\ ipPortUsage' = ipPortUsage
          /\ cmAlloc' = cmAlloc
          /\ last'.key \notin DOMAIN allocations']_vars

ExhaustionWitness ==
  /\ last.op = "allocate" /\ last.err = "nocapacity"
  /\ Len(ipPool) = 2 /\ ipPool[1] # ipPool[2]
  /\ last.key \notin DOMAIN allocations
  /\ \A i \in DOMAIN ipPool : Conflict(ipPortUsage, ipPool[i], last.ports)

\* C10: release removes the owner's allocation and exactly its ports from the
\* index, drops the address entry when no port remains on it, and an allocate
\* that follows, whose ports conflicted on that address with the released
\* owner only and fit no earlier pool address, obtains that address.
ReleaseFreesCapacity ==
  [][(last'.op = "release" /\ last'.key \in DOMAIN allocations)
       => LET key == last'.key
              alloc == allocations[key]
          IN /\ allocations' = Del(allocations, {key})
             /\ \A ip \in IPs, p \in Ports :
                  (ip \in DOMAIN ipPortUsage' /\ p \in DOMAIN ipPortUsage'[ip])
                    <=> (/\ ip \in DOMAIN ipPortUsage
                         /\ p \in DOMAIN ipPortUsage[ip]
                         /\ ~(ip = alloc.ip /\ p \in alloc.ports))
             /\ \A ip \in DOMAIN ipPortUsage' : \A p \in DOMAIN ipPortUsage'[ip] :
                  ipPortUsage'[ip][p] = ipPortUsage[ip][p]
             /\ \A ip \in DOMAIN ipPortUsage' : DOMAIN ipPortUsage'[ip] # {}
             /\ \A k2 \in Keys \ DOMAIN allocations', ps \in PortSets :
                  (/\ \A p \in ps : p \in DOMAIN ipPortUsage[alloc.ip]
                                      => ipPortUsage[alloc.ip][p] = key
                   /\ \A i \in DOMAIN ipPool :
                        (\A j \in 1..i : ipPool[j] # alloc.ip)
                          => Conflict(ipPortUsage', ipPool[i], ps))
                    => AllocateIPAndPorts(
                         [allocations |-> allocations', ipPortUsage |-> ipPortUsage',
                          cm |-> cmAlloc'], k2, ps, TRUE).res.ip = alloc.ip]_vars

\* the scenario pool [.55, .56]: A{80} -> .55, B{80} -> .56, A released
ReleaseFreesCapacityWitness ==
  /\ ipPool = <<1, 2>>
  /\ last.op = "release" /\ last.new /\ last.err = "none"
  /\ last.key = "A" /\ last.ip = 1 /\ last.ports = {80}
  /\ DOMAIN allocations = {"B"}
  /\ allocations["B"] = [ip |-> 2, ports |-> {80}]
  /\ 1 \notin DOMAIN ipPortUsage

\* ------------------------------------------------ controller properties
\* the allocation records of an owner: in the ipam maps, or in the utils
\* ConfigMap
HasRecord(k) == k \in DOMAIN allocations \/ AddressesOf(cmIPs, k) # {}

\* the calls of a pass after the allocation and before the status update
PublicationErrors == {"vrid", "endpoints", "keepalived", "nginx"}

\* the addresses on which the ipam index names the owner
IndexAddressesOf(k) ==
  {ip \in DOMAIN ipPortUsage : \E p \in DOMAIN ipPortUsage[ip] : ipPortUsage[ip][p] = k}

\* C2: when a pass that allocated returns the error of a later publication
\* step (identifier lookup, endpoint resolution, keepalived publication,
\* NGINX publication), no allocation record of that owner is left.
RollbackOnPublicationFailure ==
  \A k \in Services :
    (pc[k] = "return" /\ loc[k].allocated /\ loc[k].err \in PublicationErrors)
      => ~HasRecord(k)

\* C5: every owner key has at most one allocation record: at most one address
\* in the utils ConfigMap, at most one record in the ipam ConfigMap, and at
\* most one address in the ipam index, with passes of different Services
\* interleaved and with passes re-entered after a failure.
OneAllocationPerOwner ==
  \A k \in Keys :
    /\ Cardinality(AddressesOf(cmIPs, k)) <= 1
    /\ Cardinality({r \in cmAlloc.data : r.key = k}) <= 1
    /\ Cardinality(IndexAddressesOf(k)) <= 1

\* a pass of A re-entered after a failed one finds A's record while a pass
\* of B, which allocated, is between its allocation and its publication
OneAllocationPerOwnerWitness ==
  /\ impl = "utils"
  /\ pc["A"] = "get" /\ svc["A"].status = 0
  /\ Cardinality(AddressesOf(cmIPs, "A")) = 1
  /\ pc["B"] \in {"vrid", "keepalived", "nginx"} /\ loc["B"].allocated
  /\ Cardinality(AddressesOf(cmIPs, "B")) = 1

\* C9: the release call of the deletion path, made for an owner without a
\* record and with the API server answering, returns no error and leaves the
\* allocations, the index and both ConfigMaps unchanged.
ReleaseUnknownOwnerSucceeds ==
  [][\A k \in Services :
       (/\ pc[k] \in {"del_release", "fin_release"}
        /\ pc'[k] # pc[k]
        /\ ~HasRecord(k)
        /\ loc'[k].err # "api")
       => /\ loc'[k].err = ""
          /\ UNCHANGED <<allocations, ipPortUsage, cmAlloc, cmIPs>>]_vars

\* C11: a process restart after allocate and release calls whose ConfigMap
\* writes all succeeded leaves the in-memory allocation set and the port
\* usage index as they were before the restart.
AllocationsSurviveRestart ==
  [][(last'.op = "init" /\ saveFailures = 0)
       => /\ allocations' = allocations
          /\ ipPortUsage' = ipPortUsage]_vars

\* restarted with two owners on one address, after a release
AllocationsSurviveRestartWitness ==
  /\ last.op = "init" /\ saveFailures = 0
  /\ \E a, b \in DOMAIN allocations : a # b /\ allocations[a].ip = allocations[b].ip
  /\ \E k \in Keys : k \notin DOMAIN allocations /\ cmAlloc.exists

\* --------------------------------------------------- VRID ledger properties
\* the identifiers a cluster key holds in the file or in any ConfigMap
VRIDsOf(k) ==
  (IF k \in DOMAIN vridFile THEN {vridFile[k][1], vridFile[k][2]} ELSE {})
  \cup UNION {IF k \in DOMAIN vridCM[c].data
               THEN {vridCM[c].data[k][1], vridCM[c].data[k][2]} ELSE {}
              : c \in Clusters}

\* C12: in every reachable state of the ConfigMap ledgers and of the file on the
\* NGINX server, the identifier sets of two distinct cluster keys are disjoint.
VRIDPairsDisjoint ==
  \A a, b \in Clusters : a # b => VRIDsOf(a) \cap VRIDsOf(b) = {}

\* C13: once the ConfigMap of a cluster records a pair for the cluster, no later
\* call and no later start-up changes or removes that pair.
VRIDPairStable ==
  [][\A c \in Clusters :
       c \in DOMAIN vridCM[c].data
         => /\ c \in DOMAIN vridCM'[c].data
            /\ vridCM'[c].data[c] = vridCM[c].data[c]]_vars

\* ------------------------------------------------------- status properties
\* the store holds address x for Service k and the NGINX configuration of k
\* on the server carries x
Served(k, x) ==
  /\ nginxConf[k] = x
  /\ IF impl = "utils" THEN x \in AddressesOf(cmIPs, k)
     ELSE k \in DOMAIN allocations /\ allocations[k].ip = x

\* C14: if the status of a Service reports an address, the store holds that
\* address for the Service and the NGINX configuration of the Service was
\* published with it (stated for Services not marked for deletion, whose
\* status outlives the teardown by design).
StatusImpliesServed ==
  \A k \in Services :
    (svc[k].present /\ ~svc[k].deleting /\ svc[k].status # 0)
      => Served(k, svc[k].status)

\* C15: re-running a pass after a completed pass, a failed pass or a shutdown
\* in the middle of a pass keeps the address recorded for the Service (it
\* changes only by the release of the deletion path), never records a second
\* address for it, and keeps the reported status, which is set to the
\* recorded address.
ReentryKeepsAllocation ==
  [][\A k \in Services :
       /\ (AddressesOf(cmIPs, k) # {} /\ pc[k] # "fin_release")
            => AddressesOf(cmIPs', k) = AddressesOf(cmIPs, k)
       /\ Cardinality(AddressesOf(cmIPs', k)) <= 1
       /\ (svc[k].present /\ svc'[k].present /\ svc[k].status # 0)
            => svc'[k].status = svc[k].status
       /\ (svc'[k].present /\ svc'[k].status # svc[k].status)
            => svc'[k].status \in AddressesOf(cmIPs', k)]_vars

\* one Service converged and is run again; the other was allocated by a pass
\* that never reported, and a later pass is about to publish for it
ReentryKeepsAllocationWitness ==
  \E j, k \in Services :
    /\ svc[j].status # 0 /\ pc[j] = "nginx" /\ ~loc[j].allocated
    /\ svc[k].present /\ svc[k].status = 0
    /\ pc[k] = "status" /\ ~loc[k].allocated /\ loc[k].ip # 0

\* --------------------------------------------------- serialization property
\* what AllocateIP / ReleaseIP as one indivisible operation on the ConfigMap
\* can return for the call of worker w
Indivisible(w) ==
  {IF call[w].op = "allocate" THEN AllocateIP(cmIPs, ipPool, call[w].key, ok)
   ELSE ReleaseIP(cmIPs, call[w].key, ip, ok)
   : ok \in BOOLEAN,
     ip \in IF AddressesOf(cmIPs, call[w].key) = {} THEN {0}
            ELSE AddressesOf(cmIPs, call[w].key)}

\* C16: with several workers in AllocateIP and ReleaseIP at once, every call
\* ends with the ConfigMap and the result that the whole call, run as one
\* indivisible operation at the moment it finishes, would have produced: the
\* calls take effect in some sequential order.
SerializedAllocation ==
  [][\A w \in Workers :
       (call[w].pc \in {"load", "save"} /\ call'[w].pc = "unlock")
         => \E r \in Indivisible(w) : cmIPs' = r.cm /\ call'[w].res = r.res]_vars

\* a worker waits for the mutex while another, between its read and its write
\* of a ConfigMap that already holds an allocation, holds it
SerializedAllocationWitness ==
  \E v, w \in Workers :
    /\ call[v].pc = "lock" /\ call[w].pc = "save" /\ mutex = w
    /\ DOMAIN cmIPs.data # {}

\* ------------------------------------------------------- deletion property
\* the steps of finalizeService / handleServiceDeletion and of the finalizer
\* removal, and the errors that are a failed call to the API server or to
\* the NGINX server
DeletionSteps == {"fin_nginx", "fin_release", "fin_vrid", "fin_keepalived", "fin_marker",
                  "del_release", "del_nginx", "del_keepalived", "del_marker"}
ExternalErrors == {"api", "save", "remove", "vrid", "keepalived", "finalizer"}

\* C17: a deletion pass, first or re-entered, for a Service that had reported
\* its address ends without the finalizer removed only because a call to the
\* API server or to the NGINX server failed; a step that an earlier pass
\* already completed (allocation released, configuration file removed)
\* counts as success.
DeletionRetryConverges ==
  [][\A k \in Services :
       (/\ pc[k] \in DeletionSteps /\ svc[k].status # 0
        /\ pc'[k] = "return" /\ loc'[k].ret # "ok")
         => loc'[k].err \in ExternalErrors]_vars

Significant(data) == SelectSeq(data, LAMBDA line : line # <<"">> /\ line[1] # "#")

\* a malformed address, or a malformed range
Malformed(line) == \/ Len(line) > 2
                   \/ \E i \in 1..Len(line) : ParseIP(line[i]) = NoIP

\* the value of an address as a number, and the address of a number
IPNumber(ip) == ip[1] * ByteCount + ip[2]
NumberIP(n) == <<n \div ByteCount, n % ByteCount>>

\* the addresses numerically in [startIP, endIP], in increasing order
RECURSIVE Ascending(_, _)
Ascending(m, n) == IF m > n THEN <<>> ELSE <<IPString(NumberIP(m))>> \o Ascending(m + 1, n)

Expansion(line) ==
  IF Len(line) = 1 THEN <<IPString(ParseIP(line[1]))>>
  ELSE Ascending(IPNumber(ParseIP(line[1])), IPNumber(ParseIP(line[2])))

RECURSIVE Expansions(_)
Expansions(data) == IF data = <<>> THEN <<>> ELSE Expansion(Head(data)) \o Expansions(Tail(data))

\* C19: for a pool text of well-formed lines, either loader returns, in line
\* order, each single address and for each range the addresses numerically in
\* [start, end] in increasing order, and nothing else, also when the end of a
\* range is below its start.
PoolExpansion ==
  (loaded.by # "none" /\ \A i \in 1..Len(Significant(poolData)) :
                            ~Malformed(Significant(poolData)[i]))
    => loaded.err = "none" /\ loaded.ips = Expansions(Significant(poolData))

\* C20: when a line that is neither blank nor a comment is a malformed address
\* or a malformed range, parseIPPool returns an error and no addresses and
\* Init fails; blank lines and lines that begin with '#' change nothing in
\* what Init returns.
PoolLoadFailsAsAWhole ==
  loaded.by = "ipam"
    => /\ (\E i \in 1..Len(Significant(poolData)) : Malformed(Significant(poolData)[i]))
            => loaded.err = "invalid" /\ loaded.ips = <<>> /\ ~loaded.init
       /\ loaded = InitIpam(Significant(poolData))

\* Init has failed on a text whose first line is an address and whose second
\* line cannot be read
PoolLoadFailsAsAWholeWitness ==
  /\ loaded.by = "ipam" /\ loaded.err = "invalid"
  /\ Len(poolData) = 2
  /\ poolData[1] \in {<<"0.0">>, <<"0.0", "0.1">>}
  /\ Malformed(poolData[2]) /\ poolData[2][1] # "#"

\* C21: the expansion of a well-formed range ends, also for a range whose end
\* is the highest address: no load of a pool text of well-formed lines hangs.
RangeExpansionTerminates ==
  (loaded.by # "none" /\ \A i \in 1..Len(Significant(poolData)) :
                            ~Malformed(Significant(poolData)[i]))
    => loaded.err # "hang"

\* ------------------------------------------------------ ordering properties
\* the pass for Service k records an address for k, publishes the Keepalived
\* configuration, or writes a NGINX configuration for k in this step
CommitsOrPublishes(k) ==
  \/ AddressesOf(cmIPs', k) \ AddressesOf(cmIPs, k) # {}
  \/ pc[k] = "keepalived" /\ pc'[k] # pc[k]
  \/ nginxConf'[k] # nginxConf[k] /\ nginxConf'[k] # 0

\* C22: in a pass for a Service that is not being deleted, the finalizer is on
\* the Service before an address is recorded and before anything is published
\* to the NGINX server; a pass whose first calls (Get, finalizer Update) fail
\* records and publishes nothing.
MarkerPrecedesSideEffects ==
  [][\A k \in Services :
       /\ CommitsOrPublishes(k) => svc[k].present /\ svc[k].finalizer
       /\ (pc[k] = "idle" /\ pc'[k] = "return" /\ loc'[k].ret = "error")
            => UNCHANGED <<cmIPs, nginxConf, kaVips>>]_vars

\* a Service with the finalizer has its address recorded, the Keepalived and
\* NGINX configurations published, and the other Service's pass failed at
\* its first call
MarkerPrecedesSideEffectsWitness ==
  \E j, k \in Services :
    /\ svc[k].finalizer /\ ~svc[k].deleting
    /\ AddressesOf(cmIPs, k) # {} /\ nginxConf[k] # 0 /\ kaVips # {}
    /\ pc[j] = "return" /\ loc[j].err = "get" /\ ~svc[j].finalizer

\* the finalizer of Service k is removed in this step
MarkerRemoved(k) ==
  svc[k].present /\ svc[k].finalizer /\ (~svc'[k].present \/ ~svc'[k].finalizer)

\* C23: on the deletion path the finalizer is removed only when no address is
\* recorded for the Service, its NGINX configuration is gone, and the pass has
\* published the Keepalived configuration for the remaining addresses, all
\* with success; a deletion step that fails leaves the finalizer on.
DeletionOrdering ==
  [][\A k \in Services :
       /\ MarkerRemoved(k)
            => /\ pc[k] = "fin_marker"
               /\ AddressesOf(cmIPs, k) = {} /\ nginxConf[k] = 0
       /\ (pc[k] # "fin_marker" /\ pc'[k] = "fin_marker")
            => /\ pc[k] = "fin_keepalived"
               /\ AddressesOf(cmIPs, k) = {} /\ nginxConf[k] = 0
               /\ kaVips' = DOMAIN LoadAllocatedIPs(cmIPs)
       /\ (pc[k] \in DeletionSteps /\ pc'[k] = "return" /\ loc'[k].ret # "ok")
            => svc'[k] = svc[k] /\ svc[k].finalizer]_vars

\* a Service that had its address is gone after its deletion pass, while the
\* deletion pass of the other one, at ConfigureKeepalived, failed
DeletionOrderingWitness ==
  \E j, k \in Services :
    /\ ~svc[k].present /\ pc[k] = "return" /\ loc[k].ret = "ok"
    /\ svc[j].deleting /\ svc[j].finalizer /\ svc[j].status # 0
    /\ pc[j] = "return" /\ loc[j].err = "keepalived"
    /\ AddressesOf(cmIPs, j) = {}

\* the NGINX configuration of Service k is pushed in this step
ConfigPushed(k) == nginxConf'[k] # nginxConf[k] /\ nginxConf'[k] # 0

\* C24: within a pass the NGINX configuration of a Service is pushed only
\* after the Keepalived publication of that pass succeeded, with the address
\* of the Service among the published ones; a pass whose Keepalived
\* publication failed pushes no NGINX configuration.
PublicationOrder ==
  [][\A k \in Services :
       /\ ConfigPushed(k) => pc[k] = "nginx"
       /\ (pc[k] # "nginx" /\ pc'[k] = "nginx")
            => /\ pc[k] = "keepalived" /\ loc[k].ip # 0
               /\ loc[k].ip \in kaVips' /\ kaVips' = DOMAIN LoadAllocatedIPs(cmIPs)
       /\ (pc[k] = "keepalived" /\ pc'[k] \notin {"keepalived", "nginx"})
            => pc'[k] = "return" /\ loc'[k].ret # "ok" /\ nginxConf' = nginxConf]_vars

\* the NGINX configuration of one Service is in place, and the pass of the
\* other one ended at a failed Keepalived publication with none pushed
PublicationOrderWitness ==
  \E j, k \in Services :
    /\ nginxConf[k] # 0 /\ nginxConf[k] \in kaVips
    /\ pc[j] = "return" /\ loc[j].err = "keepalived" /\ ~svc[j].deleting
    /\ nginxConf[j] = 0

\* the pass for Service k ends in this step because no endpoint was found
NoBackends(k) ==
  pc[k] # "return" /\ pc'[k] = "return" /\ loc'[k].err \in {"noendpoints", "endpoints"}

\* C25: a pass that finds no endpoint for the Service pushes no NGINX
\* configuration, leaves the status as it was, ends with a requeue, and leaves
\* no address recorded for the Service that the pass itself allocated.
NoBackendsPublishesNothing ==
  [][\A k \in Services :
       NoBackends(k)
         => /\ nginxConf'[k] = nginxConf[k] /\ svc'[k].status = svc[k].status
            /\ loc'[k].ret \in {"error", "requeue"}
            /\ loc[k].allocated
                 => AddressesOf(cmIPs', k) = {} /\ k \notin DOMAIN allocations']_vars

\* the addresses of the set, each before every one that is greater as text
RECURSIVE SortedFleet(_)
SortedFleet(S) ==
  IF S = {} THEN <<>>
  ELSE LET least == CHOOSE x \in S : \A y \in S \ {x} : stringLess(x, y)
       IN <<least>> \o SortedFleet(S \ {least})

InOrder(g) == \A i, j \in DOMAIN g : i < j => stringLess(g[i], g[j])

\* C26: the two VIP groups of a rendered Keepalived configuration are
\* disjoint, together hold exactly the allocated addresses, differ in size by
\* at most one, are each in sorted order, and depend on the set of allocated
\* addresses only, not on the order in which the map yielded them.
GroupsPartitionTheFleet ==
  vipGroups.by # "none" =>
    LET g1 == vipGroups.group1
        g2 == vipGroups.group2
        fleet == Range(vipOrder)
        ofSet == IF vipGroups.by = "nginx" THEN splitVIPs(SortedFleet(fleet))
                 ELSE distributeIPsIntoGroups(SortedFleet(fleet))
    IN /\ Range(g1) \cap Range(g2) = {}
       /\ Range(g1) \cup Range(g2) = fleet
       /\ Len(g1) + Len(g2) = Cardinality(fleet)
       /\ Len(g1) - Len(g2) \in {-1, 0, 1}
       /\ InOrder(g1) /\ InOrder(g2)
       /\ g1 = ofSet.group1 /\ g2 = ofSet.group2

\* an odd number of addresses, yielded greatest first, was split by package utils
GroupsPartitionTheFleetWitness ==
  /\ vipGroups.by = "utils"
  /\ Len(vipOrder) >= 3 /\ Len(vipOrder) % 2 = 1 /\ ~InOrder(vipOrder)
  /\ \A i \in 2..Len(vipOrder) : stringLess(vipOrder[i], vipOrder[1])
  /\ vipGroups.group2 # <<>> /\ Len(vipGroups.group1) # Len(vipGroups.group2)

\* ------------------------------------------------- VRID allocation properties
\* GetOrAllocateVRIDsOnStartup of cluster c returns nil in this step
Bootstrapped(c) == vridVersion = "startup" /\ vpc[c] = "cm" /\ vpc'[c] = "up"

\* C27: when GetOrAllocateVRIDsOnStartup returns nil, the ConfigMap of the
\* cluster and the file on the NGINX server hold the same pair for the cluster:
\* the pair the file already had, or else the newly chosen one, which is 1,2
\* when the file was empty.
BootstrapReconcilesLedgers ==
  [][\A c \in Clusters :
       Bootstrapped(c)
         => /\ c \in DOMAIN vridCM'[c].data /\ c \in DOMAIN vridFile'
            /\ vridCM'[c].data[c] = vridFile'[c]]_vars

\* the ledger a cluster consults when it looks for a free pair: the file on the
\* NGINX server at start-up, its own ConfigMap in the lazy build
Consulted(c) == IF vridVersion = "startup" THEN vridFile ELSE vridCM[c].data
Recorded(ledger) == UNION {{ledger[t][1], ledger[t][2]} : t \in DOMAIN ledger}

\* cluster c chooses a new pair in this step
NewPair(c) ==
  IF vridVersion = "startup" THEN vpc[c] = "down" /\ vpc'[c] = "file"
  ELSE c \notin DOMAIN vridCM[c].data /\ c \in DOMAIN vridCM'[c].data
ChosenPair(c) == IF vridVersion = "startup" THEN vloc'[c].pair ELSE vridCM'[c].data[c]

\* C28: every newly chosen pair is (i, i+1) with 1 <= i and i+1 <= MaxVRID,
\* and neither identifier is recorded for any key in the ledger consulted.
PairsAdjacentAndFree ==
  [][\A c \in Clusters :
       NewPair(c)
         => LET pair == ChosenPair(c)
            IN /\ pair[2] = pair[1] + 1 /\ 1 <= pair[1] /\ pair[2] <= MaxVRID
               /\ {pair[1], pair[2]} \cap Recorded(Consulted(c)) = {}]_vars

\* a cluster started on a file with a foreign entry and holds a pair next to it
PairsAdjacentAndFreeWitness ==
  \E c \in Clusters :
    /\ vridVersion = "startup" /\ vpc[c] = "up"
    /\ "other" \in DOMAIN vridFile /\ c \in DOMAIN vridFile
    /\ vridFile["other"] = <<2, 1>> /\ vridFile[c] = <<3, 4>>
    /\ vridCM[c].data[c] = <<3, 4>>

FreeAdjacentPair(ledger) ==
  \E i \in 1..(MaxVRID - 1) : {i, i + 1} \cap Recorded(ledger) = {}

Lookup(c) ==
  vridVersion = "startup" /\ vpc[c] = "up" /\ vpc'[c] = "up" /\ vloc'[c] # vloc[c]

\* C30: once GetOrAllocateVRIDsOnStartup has returned, a call of
\* GetOrAllocateVRIDs returns the pair that the ConfigMap of the cluster holds
\* for it, whatever the file on the NGINX server holds, and changes neither
\* the ConfigMap nor the file.
LookupReadsConfigMapOnly ==
  [][\A c \in Clusters :
       Lookup(c)
         => /\ vridCM' = vridCM /\ vridFile' = vridFile
            /\ vloc'[c].err = "none"
                 => c \in DOMAIN vridCM[c].data /\ vloc'[c].vrids = vridCM[c].data[c]]_vars

\* a lookup returned the pair of the ConfigMap while the file on the NGINX
\* server holds no entry for the cluster
LookupReadsConfigMapOnlyWitness ==
  \E c \in Clusters :
    /\ vridVersion = "startup" /\ vpc[c] = "up"
    /\ vloc[c].err = "none" /\ vloc[c].vrids # NoPair
    /\ vloc[c].vrids = vridCM[c].data[c]
    /\ c \notin DOMAIN vridFile

\* ------------------------------------------------- Service type properties
\* a pass for Service k, which exists and is not of type LoadBalancer, starts
\* in this step
PassForOtherType(k) ==
  pc[k] = "idle" /\ pc'[k] # "idle" /\ svc[k].present /\ kind[k] # "LoadBalancer"

\* C31: a pass for a Service that is not of type LoadBalancer returns at once
\* and changes neither the allocations, nor the VRID ConfigMaps and file, nor
\* the NGINX and Keepalived configuration, nor the finalizer or status of any
\* Service.
OtherTypesSkipped ==
  [][\A k \in Services :
       PassForOtherType(k)
         => /\ pc'[k] = "return" /\ loc'[k].ret \in {"ok", "error"}
            /\ UNCHANGED <<storeVars, cmIPs, vridFile, vridCM, nginxConf, kaVips, svc>>]_vars

\* a pass for a Service of another type, with neither finalizer nor status,
\* returned while the other Service is served
OtherTypesSkippedWitness ==
  \E j, k \in Services :
    /\ svc[k].present /\ kind[k] = "ClusterIP" /\ ~svc[k].finalizer /\ svc[k].status = 0
    /\ pc[k] = "return" /\ loc[k].ret = "ok" /\ AddressesOf(cmIPs, k) = {}
    /\ kind[j] = "LoadBalancer" /\ svc[j].status # 0 /\ nginxConf[j] # 0

\* ------------------------------------------------- durable record properties
\* C32: after every allocate or release call that returns no error, the
\* ip-allocations ConfigMap exists or no allocation was ever saved, and its
\* record decodes to exactly the allocations held in memory.
DurableRecordTracksMemory ==
  [][(last'.op \in {"allocate", "release"} /\ last'.err = "none")
       => loadAllocationsMap(cmAlloc'.data) = allocations']_vars

\* C33: no allocate or release call waits for the store lock while holding it
\* itself: a call that has to persist its change returns.
Blocked(w) == call[w].pc = "save" /\ impl = "ipam.go" /\ mutex = w
CallsReturn == \A w \in Workers : ~Blocked(w)

\* C34: when a pass fails during publication for a Service whose allocation
\* was made by an earlier pass that completed (the status of the Service
\* reports the allocated address), the allocation is still held when the
\* pass returns.
HeldBefore(k) ==
  /\ k \in DOMAIN allocations
  /\ svc[k].present /\ svc[k].status = allocations[k].ip
RollbackSparesEarlierAllocation ==
  [][\A k \in Services :
       (pc[k] = "rollback" /\ pc'[k] # "rollback" /\ HeldBefore(k))
         => (k \in DOMAIN allocations' /\ allocations'[k] = allocations[k])]_vars

\* C35: a Service that holds an allocation and is marked for deletion is
\* eventually without allocation and without finalizer, whatever its type.
Leaked(k) == svc[k].deleting /\ AddressesOf(cmIPs, k) # {}
Released(k) == AddressesOf(cmIPs, k) = {} /\ ~svc[k].finalizer
DeletionReleasesEventually ==
  \A k \in Services : Leaked(k) ~> Released(k)

\* C36: every publication of the Keepalived files renders the primary and
\* the secondary file with the same identifier pair, the pair recorded for
\* the cluster, and records no identifier in the file on the NGINX server.
Publication(c) == rendered'[c] # rendered[c]
PublicationUsesPersistedPair ==
  [][\A c \in Clusters :
       Publication(c) =>
         /\ rendered'[c].primary = rendered'[c].secondary
         /\ c \in DOMAIN vridCM'[c].data => rendered'[c].primary = vridCM'[c].data[c]
         /\ vridFile' = vridFile]_vars

\* C37: when the bootstraps of all clusters have returned without error, the
\* file on the NGINX server holds an entry for each cluster and the pairs of
\* two clusters share no identifier.
AllBootstrapped == vridVersion = "startup" /\ \A c \in Clusters : vpc[c] = "up"
BootstrapsDoNotCollide ==
  AllBootstrapped =>
    /\ \A c \in Clusters : c \in DOMAIN vridFile
    /\ \A a, b \in Clusters \cap DOMAIN vridFile :
         a # b => Range(vridFile[a]) \cap Range(vridFile[b]) = {}

\* C38: the bootstrap of a cluster leaves every entry of another key that
\* the file on the NGINX server held when the bootstrap read it in the file
\* with the same pair, and adds no entry of another key to the ConfigMap of
\* the cluster.
BootstrapWrites(c) == vpc[c] \in {"file", "cm"} /\ vpc'[c] \in {"cm", "up"} /\ vpc'[c] # vpc[c]
RetryAfterFileError(c) ==
  /\ vridVersion = "lazy" /\ vloc[c].err = "file"
  /\ vloc'[c].err = "none" /\ vloc'[c].vrids # NoPair
LazyAllocationConverges ==
  [][\A c \in Clusters :
       RetryAfterFileError(c) =>
         (c \in DOMAIN vridFile' /\ vridFile'[c] = vridCM'[c].data[c])]_vars

\* C40: when ReleaseAllocation returns the error of a failed write, the
\* allocations and the usage index in memory are the ones the ConfigMap
\* decodes to, so a restart loads what the process holds.
ReleaseSaveFailed == last'.op = "release" /\ last'.err = "save"
ReleaseFailureKeepsRecord ==
  [][ReleaseSaveFailed =>
       /\ allocations' = loadAllocationsMap(cmAlloc'.data)
       /\ ipPortUsage' = loadAllocationsUsage(cmAlloc'.data)]_vars

====
